---------------------------- MODULE Spec2Model ----------------------------
(***************************************************************************)
(* Data contracts of the Daily Index Tracker (src/schemas): the canonical  *)
(* update records, the CBBI / CoinMarketCap aggregate responses, the       *)
(* normalizer that fans an aggregate out into single-KPI updates, and the  *)
(* parse / dispatch functions that build typed records from parsed JSON.   *)
(*                                                                         *)
(* Python values are modelled as tagged records so that values of          *)
(* different Python types can be compared:                                 *)
(*   None  [t |-> "none"]          str   [t |-> "str",  s |-> "..."]       *)
(*   float [t |-> "num", n |-> 0]  dict  [t |-> "dict", m |-> function]    *)
(*   list  [t |-> "list", l |-> sequence]                                  *)
(*   dataclass instance [t |-> "obj", cls |-> "...", <attributes>]         *)
(***************************************************************************)
EXTENDS Integers, Sequences, FiniteSets, TLC

VARIABLES
    record,     \* the record constructed from explicit field values, or None
    wire,       \* the parsed-JSON mapping at hand (inbound, or a to_dict result)
    called,     \* name of the parse function that produced `parsed`
    parsed,     \* outcome of the parse call: pending, a record, or a raised error
    updates,    \* outcome of to_kpi_data_updates: pending or a list of records
    wireKeys,   \* list(wire): the keys of `wire` in insertion order
    extraKeys,  \* list(additional_fields) of a parsed error record, in insertion order
    extracted,  \* outcome of an accessor call (get_error_message / _code / _type)
    run         \* the validator script's run: position, calls made, results, exit status

\* the variables of the schema layer
schemaVars == <<record, wire, called, parsed, updates, wireKeys, extraKeys, extracted>>

vars == <<record, wire, called, parsed, updates, wireKeys, extraKeys, extracted, run>>

----------------------------------------------------------------------------
(* Python values *)

None == [t |-> "none"]
Str(s) == [t |-> "str", s |-> s]
Num(n) == [t |-> "num", n |-> n]
Dict(m) == [t |-> "dict", m |-> m]
List(l) == [t |-> "list", l |-> l]

EmptyDict == Dict(<<>>)

\* Python truth value of a value (`if x:` / `not x`)
Truthy(v) ==
    CASE v.t = "none" -> FALSE
      [] v.t = "str"  -> v.s # ""
      [] v.t = "num"  -> v.n # 0
      [] v.t = "dict" -> DOMAIN v.m # {}
      [] v.t = "list" -> Len(v.l) # 0
      [] OTHER        -> TRUE

\* d.get(key, default) on a dict value; key is a Python value
DictGet(d, key, default) ==
    IF key.t = "str" /\ key.s \in DOMAIN d.m THEN d.m[key.s] ELSE default

\* the validator script has not been started
NotRun == [pc |-> "not run"]

\* Outcome of a call
Pending == [st |-> "pending"]
Ok(v) == [st |-> "ok", val |-> v]
Raised(exc, msg) == [st |-> "raised", exc |-> exc, msg |-> msg]

----------------------------------------------------------------------------
(* Bounds and sample inputs *)

MaxIds == 4

\* longest kpiIds list of an inbound aggregate mapping
MaxWireIds == 2

CBBIKeys == <<"cbbi-btc-price-usd", "cbbi-rhodl", "cbbi-mvrv", "cbbi-confidence">>
CMCKeys == <<"cmc-btc-dominance", "cmc-eth-dominance", "cmc-totalmarketcap-usd",
             "cmc-stablecoinmarketcap-usd">>

Range(s) == {s[i] : i \in DOMAIN s}

SeqsUpTo(S, n) == UNION {[1..k -> S] : k \in 0..n}

----------------------------------------------------------------------------
(* Aggregate source records: src/schemas/responses.py *)

CBBIData(price, rhodl, mvrv, confidence) ==
    [t |-> "obj", cls |-> "CBBIData",
     cbbi_btc_price_usd |-> price, cbbi_rhodl |-> rhodl,
     cbbi_mvrv |-> mvrv, cbbi_confidence |-> confidence]

CMCData(btc, eth, total, stable) ==
    [t |-> "obj", cls |-> "CMCData",
     cmc_btc_dominance |-> btc, cmc_eth_dominance |-> eth,
     cmc_totalmarketcap_usd |-> total, cmc_stablecoinmarketcap_usd |-> stable]

\* CBBIData.to_dict: field name -> external hyphenated key
CBBIData_to_dict(self) ==
    Dict(("cbbi-btc-price-usd" :> self.cbbi_btc_price_usd)
      @@ ("cbbi-rhodl" :> self.cbbi_rhodl)
      @@ ("cbbi-mvrv" :> self.cbbi_mvrv)
      @@ ("cbbi-confidence" :> self.cbbi_confidence))

\* CMCData.to_dict
CMCData_to_dict(self) ==
    Dict(("cmc-btc-dominance" :> self.cmc_btc_dominance)
      @@ ("cmc-eth-dominance" :> self.cmc_eth_dominance)
      @@ ("cmc-totalmarketcap-usd" :> self.cmc_totalmarketcap_usd)
      @@ ("cmc-stablecoinmarketcap-usd" :> self.cmc_stablecoinmarketcap_usd))

CBBIMultiKPIResponse(trace_id, timestamp, kpi_ids, data, metadata) ==
    [t |-> "obj", cls |-> "CBBIMultiKPIResponse",
     trace_id |-> trace_id, timestamp |-> timestamp, kpi_type |-> Str("cbbi-multi"),
     kpi_ids |-> kpi_ids, data |-> data, metadata |-> metadata]

CMCMultiKPIResponse(trace_id, timestamp, kpi_ids, data, metadata) ==
    [t |-> "obj", cls |-> "CMCMultiKPIResponse",
     trace_id |-> trace_id, timestamp |-> timestamp, kpi_type |-> Str("cmc-multi"),
     kpi_ids |-> kpi_ids, data |-> data, metadata |-> metadata]

\* the order in which the aggregate to_dict methods write their keys
Aggregate_key_order == <<"traceId", "timestamp", "kpiType", "kpiIds", "data", "metadata">>

----------------------------------------------------------------------------
(* Canonical success record: src/schemas/core.py *)

KPIDataUpdate(trace_id, kpi_id, timestamp, kpi_type, data, kpi_ids, chart, metadata) ==
    [t |-> "obj", cls |-> "KPIDataUpdate",
     trace_id |-> trace_id, kpi_id |-> kpi_id, timestamp |-> timestamp,
     kpi_type |-> kpi_type, data |-> data, kpi_ids |-> kpi_ids,
     chart |-> chart, metadata |-> metadata]

----------------------------------------------------------------------------
(* Aggregate normalizer: to_kpi_data_updates *)

\* Mutant: each record lists only its own id instead of the whole batch
FanOutRecord_own_id(self, kpi_id, kpi_value) ==
    KPIDataUpdate(self.trace_id, kpi_id, self.timestamp, self.kpi_type,
                  Dict("value" :> kpi_value), List(<<kpi_id>>), None, self.metadata)

\* The record appended for one kpi_id whose value is not None
FanOutRecord(self, kpi_id, kpi_value) ==
    KPIDataUpdate(self.trace_id, kpi_id, self.timestamp, self.kpi_type,
                  Dict("value" :> kpi_value), self.kpi_ids, None, self.metadata)

\* Mutant: `if kpi_value:` instead of `if kpi_value is not None:` (drops 0.0)
FanOutLoop_truthy(self, data_dict, ids, i) ==
    LET RECURSIVE Loop(_)
        Loop(j) ==
            IF j > Len(ids) THEN <<>>
            ELSE LET kpi_value == DictGet(data_dict, ids[j], None)
                 IN (IF Truthy(kpi_value)
                       THEN <<FanOutRecord(self, ids[j], kpi_value)>>
                       ELSE <<>>) \o Loop(j + 1)
    IN Loop(i)

\* Mutant: the loop stops at the first id without a value (break, not skip)
FanOutLoop_break(self, data_dict, ids, i) ==
    LET RECURSIVE Loop(_)
        Loop(j) ==
            IF j > Len(ids) THEN <<>>
            ELSE LET kpi_value == DictGet(data_dict, ids[j], None)
                 IN IF kpi_value # None
                      THEN <<FanOutRecord(self, ids[j], kpi_value)>> \o Loop(j + 1)
                      ELSE <<>>
    IN Loop(i)

\* Mutant: a record is put in front of the list instead of appended
FanOutLoop_prepend(self, data_dict, ids, i) ==
    LET RECURSIVE Loop(_)
        Loop(j) ==
            IF j > Len(ids) THEN <<>>
            ELSE LET kpi_value == DictGet(data_dict, ids[j], None)
                 IN Loop(j + 1) \o (IF kpi_value # None
                                      THEN <<FanOutRecord(self, ids[j], kpi_value)>>
                                      ELSE <<>>)
    IN Loop(i)

\* The for-loop over self.kpi_ids, from position i on
RECURSIVE FanOutLoop(_, _, _, _)
FanOutLoop(self, data_dict, ids, i) ==
    IF i > Len(ids) THEN <<>>
    ELSE LET kpi_id == ids[i]
             kpi_value == DictGet(data_dict, kpi_id, None)
         IN (IF kpi_value # None
               THEN <<FanOutRecord(self, kpi_id, kpi_value)>>
               ELSE <<>>)
            \o FanOutLoop(self, data_dict, ids, i + 1)

\* Mutant: the early return needs both data and kpi_ids to be absent
CBBI_to_kpi_data_updates_and(self) ==
    IF ~Truthy(self.data) /\ ~Truthy(self.kpi_ids) THEN Ok(List(<<>>))
    ELSE IF self.data = None THEN Raised("AttributeError", <<"to_dict">>)
    ELSE IF self.kpi_ids = None THEN Raised("TypeError", <<"not iterable">>)
    ELSE Ok(List(FanOutLoop(self, CBBIData_to_dict(self.data), self.kpi_ids.l, 1)))

CBBI_to_kpi_data_updates(self) ==
    IF ~Truthy(self.data) \/ ~Truthy(self.kpi_ids) THEN Ok(List(<<>>))
    ELSE Ok(List(FanOutLoop(self, CBBIData_to_dict(self.data), self.kpi_ids.l, 1)))

CMC_to_kpi_data_updates(self) ==
    IF ~Truthy(self.data) \/ ~Truthy(self.kpi_ids) THEN Ok(List(<<>>))
    ELSE Ok(List(FanOutLoop(self, CMCData_to_dict(self.data), self.kpi_ids.l, 1)))

----------------------------------------------------------------------------
(* Inputs of the normalizer: explicitly constructed aggregate responses *)

\* Each numeric field is either unset or holds a value of its own; the first
\* field holds 0.0, which is falsy but not None.
FieldValues(i) == {None, Num(i - 1)}

CBBIDataSamples ==
    {CBBIData(a, b, c, d) : a \in FieldValues(1), b \in FieldValues(2),
                            c \in FieldValues(3), d \in FieldValues(4)}

CMCDataSamples ==
    {CMCData(a, b, c, d) : a \in FieldValues(1), b \in FieldValues(2),
                           c \in FieldValues(3), d \in FieldValues(4)}

\* ids that may be listed: the source's own four keys and one key of the other source
CBBIIdSamples == {Str(k) : k \in Range(CBBIKeys) \cup {CMCKeys[1]}}
CMCIdSamples == {Str(k) : k \in Range(CMCKeys) \cup {CBBIKeys[2]}}

KpiIdsSamples(ids) == {None} \cup {List(l) : l \in SeqsUpTo(ids, MaxIds)}

MetadataSamples == {None, Dict("source" :> Str("cbbi"))}

TraceIdSamples == {Str("trace_123")}
TimestampSamples == {Str("2025-08-14T14:30:22Z")}

CBBIResponseSamples ==
    {CBBIMultiKPIResponse(tr, ts, ids, d, md) :
        tr \in TraceIdSamples, ts \in TimestampSamples,
        ids \in KpiIdsSamples(CBBIIdSamples),
        d \in {None} \cup CBBIDataSamples, md \in MetadataSamples}

CMCResponseSamples ==
    {CMCMultiKPIResponse(tr, ts, ids, d, md) :
        tr \in TraceIdSamples, ts \in TimestampSamples,
        ids \in KpiIdsSamples(CMCIdSamples),
        d \in {None} \cup CMCDataSamples, md \in MetadataSamples}

----------------------------------------------------------------------------
(* Normalizer specification: an aggregate response is constructed, then     *)
(* to_kpi_data_updates is called on it once.                                *)

InitNormalize ==
    /\ record \in CBBIResponseSamples \cup CMCResponseSamples
    /\ wire = None
    /\ called = ""
    /\ parsed = Pending
    /\ updates = Pending
    /\ wireKeys = <<>>
    /\ extraKeys = <<>>
    /\ extracted = Pending
    /\ run = NotRun

CallCBBINormalize ==
    /\ updates = Pending
    /\ record.t = "obj" /\ record.cls = "CBBIMultiKPIResponse"
    /\ updates' = CBBI_to_kpi_data_updates(record)
    /\ UNCHANGED <<record, wire, called, parsed, wireKeys, extraKeys, extracted, run>>

CallCMCNormalize ==
    /\ updates = Pending
    /\ record.t = "obj" /\ record.cls = "CMCMultiKPIResponse"
    /\ updates' = CMC_to_kpi_data_updates(record)
    /\ UNCHANGED <<record, wire, called, parsed, wireKeys, extraKeys, extracted, run>>

NextNormalize == CallCBBINormalize \/ CallCMCNormalize

SpecNormalize == InitNormalize /\ [][NextNormalize]_vars

----------------------------------------------------------------------------
(* Parsed-JSON mappings and the records built from them *)

Has(d, k) == k \in DOMAIN d.m

\* d.get(k, default) with a literal key
Get(d, k, default) == IF Has(d, k) THEN d.m[k] ELSE default

\* the keys of d in the order of the sequence `order` (keys are inserted into
\* a dict literal or by successive assignments in a fixed order)
KeysInOrder(d, order) ==
    LET In(k) == k \in DOMAIN d.m IN SelectSeq(order, In)

\* the order in which the sample mappings of this module list their keys
SampleKeyOrder ==
    <<"traceId", "kpiId", "timestamp", "kpiType", "data", "kpiIds", "chart", "metadata",
      "message", "error", "description", "code", "errorCode", "status",
      "name", "type", "errorType",
      "retryCount", "component", "workflowId", "executionId",
      "customField", "severity">>

\* the order in which KPIDataUpdate.to_dict writes its keys
KPIDataUpdate_key_order ==
    <<"traceId", "kpiId", "timestamp", "kpiType", "data", "kpiIds", "chart", "metadata">>

\* str(v) as interpolated by an f-string; the mappings modelled here carry
\* None or a string where a value is interpolated
\* repr(v) of a scalar, as str() of a dict renders its values
PyRepr(v) ==
    CASE v.t = "none" -> "None"
      [] v.t = "str"  -> "'" \o v.s \o "'"
      [] v.t = "num"  -> ToString(v.n)
      [] OTHER        -> ToString(v)

\* the "'k': v" items of a dict, joined with ", ", from position i of keys on
RECURSIVE DictItemsStr(_, _, _)
DictItemsStr(d, keys, i) ==
    IF i > Len(keys) THEN ""
    ELSE "'" \o keys[i] \o "': " \o PyRepr(d.m[keys[i]])
         \o (IF i < Len(keys) THEN ", " ELSE "")
         \o DictItemsStr(d, keys, i + 1)

PyStr(v) ==
    CASE v.t = "none" -> "None"
      [] v.t = "str"  -> v.s
      [] v.t = "num"  -> ToString(v.n)
      [] v.t = "dict" -> "{" \o DictItemsStr(v, KeysInOrder(v, SampleKeyOrder), 1) \o "}"
      [] OTHER        -> ToString(v)

ChartInfo(url, chart_type, time_range) ==
    [t |-> "obj", cls |-> "ChartInfo",
     url |-> url, chart_type |-> chart_type, time_range |-> time_range]

ChartInfo_to_dict(self) ==
    Dict(("url" :> self.url) @@ ("type" :> self.chart_type)
      @@ ("timeRange" :> self.time_range))

IndividualKPIResponse(trace_id, kpi_id, timestamp, kpi_type, data, chart, metadata) ==
    [t |-> "obj", cls |-> "IndividualKPIResponse",
     trace_id |-> trace_id, kpi_id |-> kpi_id, timestamp |-> timestamp,
     kpi_type |-> kpi_type, data |-> data, chart |-> chart, metadata |-> metadata]

KPIErrorUpdate(trace_id, error, timestamp, kpi_id, kpi_ids, retry_count, component, workflow_id, execution_id, additional_fields) ==
    [t |-> "obj", cls |-> "KPIErrorUpdate",
     trace_id |-> trace_id, error |-> error, timestamp |-> timestamp,
     kpi_id |-> kpi_id, kpi_ids |-> kpi_ids, retry_count |-> retry_count,
     component |-> component, workflow_id |-> workflow_id,
     execution_id |-> execution_id, additional_fields |-> additional_fields]

\* Mutant: an optional entry that is not set is written as null
Entry_null(cond, k, v) == k :> (IF cond THEN v ELSE None)

\* one optional entry of a dict under construction: present only when cond holds
Entry(cond, k, v) == IF cond THEN k :> v ELSE <<>>

\* KPIDataUpdate.validate
KPIDataUpdate_validate(self) ==
    IF ~Truthy(self.trace_id) \/ ~Truthy(self.kpi_id) THEN FALSE
    ELSE IF ~Truthy(self.timestamp) \/ ~Truthy(self.kpi_type) THEN FALSE
    ELSE IF self.data.t # "dict" THEN FALSE
    ELSE TRUE

\* Mutant: the id is written under the attribute name instead of the wire key
KPIDataUpdate_to_dict_snake(self) ==
    Dict(("traceId" :> self.trace_id) @@ ("kpi_id" :> self.kpi_id)
      @@ ("timestamp" :> self.timestamp) @@ ("kpiType" :> self.kpi_type)
      @@ ("data" :> self.data)
      @@ Entry(Truthy(self.kpi_ids), "kpiIds", self.kpi_ids)
      @@ Entry(Truthy(self.chart), "chart",
               IF Truthy(self.chart) THEN ChartInfo_to_dict(self.chart) ELSE None)
      @@ Entry(Truthy(self.metadata), "metadata", self.metadata))

KPIDataUpdate_to_dict(self) ==
    Dict(("traceId" :> self.trace_id) @@ ("kpiId" :> self.kpi_id)
      @@ ("timestamp" :> self.timestamp) @@ ("kpiType" :> self.kpi_type)
      @@ ("data" :> self.data)
      @@ Entry(Truthy(self.kpi_ids), "kpiIds", self.kpi_ids)
      @@ Entry(Truthy(self.chart), "chart",
               IF Truthy(self.chart) THEN ChartInfo_to_dict(self.chart) ELSE None)
      @@ Entry(Truthy(self.metadata), "metadata", self.metadata))

\* Mutant: the chart block is entered for every chart that is not null
ParseChart_non_null(data) ==
    IF Has(data, "chart") /\ data.m["chart"] # None
      THEN LET chart_data == data.m["chart"]
           IN IF chart_data.t # "dict"
                THEN Raised("TypeError", <<"chart_data['url']">>)
              ELSE IF ~Has(chart_data, "url")
                THEN Raised("KeyError", <<"url">>)
              ELSE Ok(ChartInfo(chart_data.m["url"],
                                Get(chart_data, "type", Str("unknown")),
                                Get(chart_data, "timeRange", Str("unknown"))))
      ELSE Ok(None)

\* The chart block shared by KPIDataUpdate.from_dict (core.py) and
\* parse_individual_kpi_response (responses.py)
ParseChart(data) ==
    IF Has(data, "chart") /\ Truthy(data.m["chart"])
      THEN LET chart_data == data.m["chart"]
           IN IF chart_data.t # "dict"
                THEN Raised("TypeError", <<"chart_data['url']">>)
              ELSE IF ~Has(chart_data, "url")
                THEN Raised("KeyError", <<"url">>)
              ELSE Ok(ChartInfo(chart_data.m["url"],
                                Get(chart_data, "type", Str("unknown")),
                                Get(chart_data, "timeRange", Str("unknown"))))
      ELSE Ok(None)

required_fields == <<"traceId", "kpiId", "timestamp", "kpiType", "data">>

\* the first of the listed keys that the mapping lacks, "" if none
RECURSIVE FirstMissing(_, _, _)
FirstMissing(data, fields, i) ==
    IF i > Len(fields) THEN ""
    ELSE IF ~Has(data, fields[i]) THEN fields[i]
    ELSE FirstMissing(data, fields, i + 1)

MissingFieldError(field) ==
    Raised("ValueError", <<"Required field '", field, "' missing from KPI data">>)

\* Mutant: the required-field loop does not check "data"
KPIDataUpdate_from_dict_no_data_check(data) ==
    LET missing == FirstMissing(data, SubSeq(required_fields, 1, 4), 1)
        chart == ParseChart(data)
    IN IF missing # "" THEN MissingFieldError(missing)
       ELSE IF chart.st = "raised" THEN chart
       ELSE IF ~Has(data, "data") THEN Raised("KeyError", <<"data">>)
       ELSE Ok(KPIDataUpdate(data.m["traceId"], data.m["kpiId"], data.m["timestamp"],
                             data.m["kpiType"], data.m["data"],
                             Get(data, "kpiIds", None), chart.val,
                             Get(data, "metadata", None)))

KPIDataUpdate_from_dict(data) ==
    LET missing == FirstMissing(data, required_fields, 1)
        chart == ParseChart(data)
    IN IF missing # "" THEN MissingFieldError(missing)
       ELSE IF chart.st = "raised" THEN chart
       ELSE Ok(KPIDataUpdate(data.m["traceId"], data.m["kpiId"], data.m["timestamp"],
                             data.m["kpiType"], data.m["data"],
                             Get(data, "kpiIds", None), chart.val,
                             Get(data, "metadata", None)))

parse_kpi_data_update(data) == KPIDataUpdate_from_dict(data)

known_fields == {"traceId", "error", "timestamp", "kpiId", "kpiIds",
                 "retryCount", "component", "workflowId", "executionId"}

TraceIdRequired == Raised("ValueError", <<"traceId is required in error response">>)
ErrorRequired == Raised("ValueError", <<"error field is required in error response">>)

\* Mutant: the comprehension walks the keys in reverse
AdditionalKeys_reversed(keys) ==
    LET Unknown(k) == k \notin known_fields
        sel == SelectSeq(keys, Unknown)
    IN [i \in 1..Len(sel) |-> sel[Len(sel) + 1 - i]]

\* The keys the comprehension over data.items() keeps, in iteration order
AdditionalKeys(keys) ==
    LET Unknown(k) == k \notin known_fields IN SelectSeq(keys, Unknown)

\* Mutant: both checks raise the same error
KPIErrorUpdate_from_dict_same_error(data) ==
    LET trace_id == Get(data, "traceId", None)
        error == Get(data, "error", EmptyDict)
        additional_fields ==
            Dict([k \in DOMAIN data.m \ known_fields |-> data.m[k]])
    IN IF ~Truthy(trace_id) THEN TraceIdRequired
       ELSE IF ~Truthy(error) THEN TraceIdRequired
       ELSE Ok(KPIErrorUpdate(trace_id, error,
                              Get(data, "timestamp", None), Get(data, "kpiId", None),
                              Get(data, "kpiIds", None), Get(data, "retryCount", None),
                              Get(data, "component", None), Get(data, "workflowId", None),
                              Get(data, "executionId", None),
                              IF Truthy(additional_fields)
                                THEN additional_fields ELSE None))

\* Mutant: the two checks test that the key is there, not that its value is set
KPIErrorUpdate_from_dict_presence(data) ==
    LET trace_id == Get(data, "traceId", None)
        error == Get(data, "error", EmptyDict)
        additional_fields ==
            Dict([k \in DOMAIN data.m \ known_fields |-> data.m[k]])
    IN IF ~Has(data, "traceId") THEN TraceIdRequired
       ELSE IF ~Has(data, "error") THEN ErrorRequired
       ELSE Ok(KPIErrorUpdate(trace_id, error,
                              Get(data, "timestamp", None), Get(data, "kpiId", None),
                              Get(data, "kpiIds", None), Get(data, "retryCount", None),
                              Get(data, "component", None), Get(data, "workflowId", None),
                              Get(data, "executionId", None),
                              IF Truthy(additional_fields)
                                THEN additional_fields ELSE None))

KPIErrorUpdate_from_dict(data) ==
    LET trace_id == Get(data, "traceId", None)
        error == Get(data, "error", EmptyDict)
        additional_fields ==
            Dict([k \in DOMAIN data.m \ known_fields |-> data.m[k]])
    IN IF ~Truthy(trace_id) THEN TraceIdRequired
       ELSE IF ~Truthy(error) THEN ErrorRequired
       ELSE Ok(KPIErrorUpdate(trace_id, error,
                              Get(data, "timestamp", None), Get(data, "kpiId", None),
                              Get(data, "kpiIds", None), Get(data, "retryCount", None),
                              Get(data, "component", None), Get(data, "workflowId", None),
                              Get(data, "executionId", None),
                              IF Truthy(additional_fields)
                                THEN additional_fields ELSE None))

parse_kpi_error_update(data) == KPIErrorUpdate_from_dict(data)

----------------------------------------------------------------------------
(* Canonical error record: serialization and accessors (src/schemas/core.py) *)

\* Mutant: retry_count is tested for truthiness like the other optional fields
ErrorKnownEntries_truthy_retry(self) ==
    ("traceId" :> self.trace_id) @@ ("error" :> self.error)
      @@ Entry(Truthy(self.timestamp), "timestamp", self.timestamp)
      @@ Entry(Truthy(self.kpi_id), "kpiId", self.kpi_id)
      @@ Entry(Truthy(self.kpi_ids), "kpiIds", self.kpi_ids)
      @@ Entry(Truthy(self.retry_count), "retryCount", self.retry_count)
      @@ Entry(Truthy(self.component), "component", self.component)
      @@ Entry(Truthy(self.workflow_id), "workflowId", self.workflow_id)
      @@ Entry(Truthy(self.execution_id), "executionId", self.execution_id)

\* the known keys written by KPIErrorUpdate.to_dict, before additional_fields
ErrorKnownEntries(self) ==
    ("traceId" :> self.trace_id) @@ ("error" :> self.error)
      @@ Entry(Truthy(self.timestamp), "timestamp", self.timestamp)
      @@ Entry(Truthy(self.kpi_id), "kpiId", self.kpi_id)
      @@ Entry(Truthy(self.kpi_ids), "kpiIds", self.kpi_ids)
      @@ Entry(self.retry_count # None, "retryCount", self.retry_count)
      @@ Entry(Truthy(self.component), "component", self.component)
      @@ Entry(Truthy(self.workflow_id), "workflowId", self.workflow_id)
      @@ Entry(Truthy(self.execution_id), "executionId", self.execution_id)

\* Mutant: additional_fields is nested under a key of its own
KPIErrorUpdate_to_dict_nested(self) ==
    Dict(ErrorKnownEntries(self)
         @@ Entry(Truthy(self.additional_fields), "additionalFields",
                  self.additional_fields))

\* KPIErrorUpdate.to_dict: result.update(additional_fields) comes last, so an
\* additional key replaces the value already stored under the same key
KPIErrorUpdate_to_dict(self) ==
    IF Truthy(self.additional_fields)
      THEN Dict(self.additional_fields.m @@ ErrorKnownEntries(self))
      ELSE Dict(ErrorKnownEntries(self))

\* the order in which KPIErrorUpdate.to_dict writes the known keys
KPIErrorUpdate_key_order ==
    <<"traceId", "error", "timestamp", "kpiId", "kpiIds", "retryCount",
      "component", "workflowId", "executionId">>

\* list(self.to_dict()): the known keys as written, then the additional keys
\* that were not already there
KPIErrorUpdate_to_dict_keys(self) ==
    LET known == Dict(ErrorKnownEntries(self))
        New(k) == k \notin DOMAIN known.m
    IN KeysInOrder(known, KPIErrorUpdate_key_order)
       \o (IF Truthy(self.additional_fields)
             THEN SelectSeq(KeysInOrder(self.additional_fields, SampleKeyOrder), New)
             ELSE <<>>)

\* Python `a or b`
PyOr(a, b) == IF Truthy(a) THEN a ELSE b

\* Mutant: "error" is preferred over "message"
get_error_message_error_first(self) ==
    IF self.error.t = "dict"
      THEN PyOr(Get(self.error, "error", None),
           PyOr(Get(self.error, "message", None),
           PyOr(Get(self.error, "description", None),
                Str(PyStr(self.error)))))
      ELSE Str(PyStr(self.error))

get_error_message(self) ==
    IF self.error.t = "dict"
      THEN PyOr(Get(self.error, "message", None),
           PyOr(Get(self.error, "error", None),
           PyOr(Get(self.error, "description", None),
                Str(PyStr(self.error)))))
      ELSE Str(PyStr(self.error))

\* Mutant: status is tried before code / errorCode
get_error_code_status_first(self) ==
    IF self.error.t = "dict"
      THEN LET code == PyOr(Get(self.error, "code", None),
                            Get(self.error, "errorCode", None))
               status == Get(self.error, "status", None)
           IN IF Truthy(status) THEN Str(PyStr(status))
              ELSE IF Truthy(code) THEN Str(PyStr(code))
              ELSE None
      ELSE None

get_error_code(self) ==
    IF self.error.t = "dict"
      THEN LET code == PyOr(Get(self.error, "code", None),
                            Get(self.error, "errorCode", None))
               status == Get(self.error, "status", None)
           IN IF Truthy(code) THEN Str(PyStr(code))
              ELSE IF Truthy(status) THEN Str(PyStr(status))
              ELSE None
      ELSE None

\* Mutant: "type" is preferred over "name"
get_error_type_type_first(self) ==
    IF self.error.t = "dict"
      THEN PyOr(Get(self.error, "type", None),
           PyOr(Get(self.error, "name", None),
                Get(self.error, "errorType", None)))
      ELSE None

get_error_type(self) ==
    IF self.error.t = "dict"
      THEN PyOr(Get(self.error, "name", None),
           PyOr(Get(self.error, "type", None),
                Get(self.error, "errorType", None)))
      ELSE None

\* KPIErrorUpdate.validate
KPIErrorUpdate_validate(self) ==
    IF ~Truthy(self.trace_id) THEN FALSE
    ELSE IF ~Truthy(self.error) THEN FALSE
    ELSE TRUE

----------------------------------------------------------------------------
(* Aggregate responses: serialization (src/schemas/responses.py) *)

\* Mutant: the type is written under the attribute name instead of the wire key
CBBIMultiKPIResponse_to_dict_snake(self) ==
    Dict(("traceId" :> self.trace_id) @@ ("timestamp" :> self.timestamp)
      @@ ("kpi_type" :> self.kpi_type)
      @@ Entry(Truthy(self.kpi_ids), "kpiIds", self.kpi_ids)
      @@ Entry(Truthy(self.data), "data",
               IF Truthy(self.data) THEN CBBIData_to_dict(self.data) ELSE None)
      @@ Entry(Truthy(self.metadata), "metadata", self.metadata))

CBBIMultiKPIResponse_to_dict(self) ==
    Dict(("traceId" :> self.trace_id) @@ ("timestamp" :> self.timestamp)
      @@ ("kpiType" :> self.kpi_type)
      @@ Entry(Truthy(self.kpi_ids), "kpiIds", self.kpi_ids)
      @@ Entry(Truthy(self.data), "data",
               IF Truthy(self.data) THEN CBBIData_to_dict(self.data) ELSE None)
      @@ Entry(Truthy(self.metadata), "metadata", self.metadata))

CMCMultiKPIResponse_to_dict(self) ==
    Dict(("traceId" :> self.trace_id) @@ ("timestamp" :> self.timestamp)
      @@ ("kpiType" :> self.kpi_type)
      @@ Entry(Truthy(self.kpi_ids), "kpiIds", self.kpi_ids)
      @@ Entry(Truthy(self.data), "data",
               IF Truthy(self.data) THEN CMCData_to_dict(self.data) ELSE None)
      @@ Entry(Truthy(self.metadata), "metadata", self.metadata))

----------------------------------------------------------------------------
(* Dispatch / parse layer: src/schemas/responses.py *)

UnknownMultiKPIType(kpi_type) ==
    Raised("ValueError", <<"Unknown multi-KPI type: ", PyStr(kpi_type)>>)

IndeterminateShape ==
    Raised("ValueError", <<"Cannot determine KPI response type from data structure">>)

\* the `data` block of either branch: None unless data["data"] is truthy
HasRawData(data) == Has(data, "data") /\ Truthy(data.m["data"])

\* Mutant: a missing sub-field is left unset instead of defaulting to 0.0
CBBIDataFromWire_no_default(raw_data) ==
    CBBIData(Get(raw_data, "cbbi-btc-price-usd", None),
             Get(raw_data, "cbbi-rhodl", None),
             Get(raw_data, "cbbi-mvrv", None),
             Get(raw_data, "cbbi-confidence", None))

CBBIDataFromWire(raw_data) ==
    CBBIData(Get(raw_data, "cbbi-btc-price-usd", Num(0)),
             Get(raw_data, "cbbi-rhodl", Num(0)),
             Get(raw_data, "cbbi-mvrv", Num(0)),
             Get(raw_data, "cbbi-confidence", Num(0)))

\* Mutant: a missing sub-field is left unset instead of defaulting to 0.0
CMCDataFromWire_no_default(raw_data) ==
    CMCData(Get(raw_data, "cmc-btc-dominance", None),
            Get(raw_data, "cmc-eth-dominance", None),
            Get(raw_data, "cmc-totalmarketcap-usd", None),
            Get(raw_data, "cmc-stablecoinmarketcap-usd", None))

CMCDataFromWire(raw_data) ==
    CMCData(Get(raw_data, "cmc-btc-dominance", Num(0)),
            Get(raw_data, "cmc-eth-dominance", Num(0)),
            Get(raw_data, "cmc-totalmarketcap-usd", Num(0)),
            Get(raw_data, "cmc-stablecoinmarketcap-usd", Num(0)))

\* the cbbi-multi branch: build the data record, then the response
ParseCBBIBranch(data) ==
    IF HasRawData(data) /\ data.m["data"].t # "dict"
      THEN Raised("AttributeError", <<"get">>)
    ELSE IF ~Has(data, "traceId") THEN Raised("KeyError", <<"traceId">>)
    ELSE IF ~Has(data, "timestamp") THEN Raised("KeyError", <<"timestamp">>)
    ELSE Ok(CBBIMultiKPIResponse(
                data.m["traceId"], data.m["timestamp"], Get(data, "kpiIds", None),
                IF HasRawData(data) THEN CBBIDataFromWire(data.m["data"]) ELSE None,
                Get(data, "metadata", None)))

\* the cmc-multi branch
ParseCMCBranch(data) ==
    IF HasRawData(data) /\ data.m["data"].t # "dict"
      THEN Raised("AttributeError", <<"get">>)
    ELSE IF ~Has(data, "traceId") THEN Raised("KeyError", <<"traceId">>)
    ELSE IF ~Has(data, "timestamp") THEN Raised("KeyError", <<"timestamp">>)
    ELSE Ok(CMCMultiKPIResponse(
                data.m["traceId"], data.m["timestamp"], Get(data, "kpiIds", None),
                IF HasRawData(data) THEN CMCDataFromWire(data.m["data"]) ELSE None,
                Get(data, "metadata", None)))

\* Mutant: an unrecognized kpiType falls through to the CMC branch
parse_multi_kpi_response_fallback(data) ==
    LET kpi_type == Get(data, "kpiType", None)
    IN IF kpi_type = Str("cbbi-multi") THEN ParseCBBIBranch(data)
       ELSE ParseCMCBranch(data)

parse_multi_kpi_response(data) ==
    LET kpi_type == Get(data, "kpiType", None)
    IN IF kpi_type = Str("cbbi-multi") THEN ParseCBBIBranch(data)
       ELSE IF kpi_type = Str("cmc-multi") THEN ParseCMCBranch(data)
       ELSE UnknownMultiKPIType(kpi_type)

parse_individual_kpi_response(data) ==
    LET chart == ParseChart(data)
        missing == FirstMissing(data, required_fields, 1)
    IN IF chart.st = "raised" THEN chart
       ELSE IF missing # "" THEN Raised("KeyError", <<missing>>)
       ELSE Ok(IndividualKPIResponse(
                    data.m["traceId"], data.m["kpiId"], data.m["timestamp"],
                    data.m["kpiType"], data.m["data"], chart.val,
                    Get(data, "metadata", None)))

\* Mutant: the kpiId check comes before the multi-type check
parse_kpi_response_kpiId_first(data) ==
    LET kpi_type == Get(data, "kpiType", None)
    IN IF Has(data, "kpiId") THEN parse_individual_kpi_response(data)
       ELSE IF kpi_type \in {Str("cbbi-multi"), Str("cmc-multi")}
         THEN parse_multi_kpi_response(data)
       ELSE IndeterminateShape

\* Mutant: anything that is not a multi-KPI response is parsed as an individual one
parse_kpi_response_no_else(data) ==
    LET kpi_type == Get(data, "kpiType", None)
    IN IF kpi_type \in {Str("cbbi-multi"), Str("cmc-multi")}
         THEN parse_multi_kpi_response(data)
       ELSE parse_individual_kpi_response(data)

parse_kpi_response(data) ==
    LET kpi_type == Get(data, "kpiType", None)
    IN IF kpi_type \in {Str("cbbi-multi"), Str("cmc-multi")}
         THEN parse_multi_kpi_response(data)
       ELSE IF Has(data, "kpiId") THEN parse_individual_kpi_response(data)
       ELSE IndeterminateShape

parse_error_response(data) == KPIErrorUpdate_from_dict(data)

----------------------------------------------------------------------------
(* Inputs of the parse layer: parsed-JSON mappings *)

\* marks a key that the mapping does not contain
Absent == [t |-> "absent"]

\* the mapping holding the keys of r that are not marked absent
MkDict(r) == Dict([k \in {x \in DOMAIN r : r[x] # Absent} |-> r[k]])

ChartWireSamples ==
    {Absent, None, EmptyDict, Str("https://example.com/chart.png"),
     Dict("url" :> Str("https://example.com/chart.png")),
     Dict("type" :> Str("line")),
     Dict(("url" :> Str("https://example.com/chart.png")) @@ ("type" :> Str("line"))
          @@ ("timeRange" :> Str("24h")))}

DataWireSamples ==
    {Absent, None, EmptyDict, Str("45000.0"),
     Dict("value" :> Num(1)),
     Dict(("cbbi-rhodl" :> Num(1)) @@ ("cmc-btc-dominance" :> Num(2)))}

\* success-shaped and aggregate-shaped mappings, complete or not
ResponseWireSamples ==
    {MkDict(r) : r \in
        [traceId   : {Absent, Str(""), Str("trace_123")},
         kpiId     : {Absent, None, Str("btc-price")},
         timestamp : {Absent, Str("2025-08-14T14:30:22Z")},
         kpiType   : {Absent, None, Str("cbbi-multi"), Str("cmc-multi"),
                      Str("bogus-multi"), Str("price")},
         data      : DataWireSamples,
         kpiIds    : {Absent, List(<<>>), List(<<Str("cbbi-rhodl")>>)},
         chart     : ChartWireSamples,
         metadata  : {Absent, Dict("source" :> Str("cbbi"))}]}

\* error-shaped mappings, complete or not
ErrorWireSamples ==
    {MkDict(r) : r \in
        [traceId     : {Absent, None, Str(""), Str("trace_minimal")},
         error       : {Absent, None, Str(""), EmptyDict, Str("Simple error message"),
                        Dict(("message" :> Str("Network timeout"))
                             @@ ("code" :> Str("TIMEOUT")))},
         kpiId       : {Absent, Str("test-kpi")},
         retryCount  : {Absent, Num(0), Num(2)},
         customField : {Absent, Str("custom_value")}]}

----------------------------------------------------------------------------
(* Parse specification: a parsed-JSON mapping arrives and one of the parse  *)
(* functions is called on it.                                               *)

InitParse ==
    /\ record = None
    /\ wire \in ResponseWireSamples \cup ErrorWireSamples
    /\ called = ""
    /\ parsed = Pending
    /\ updates = Pending
    /\ wireKeys = KeysInOrder(wire, SampleKeyOrder)
    /\ extraKeys = <<>>
    /\ extracted = Pending
    /\ run = NotRun

CanParse == wire # None /\ parsed = Pending

CallParseKpiResponse ==
    /\ CanParse
    /\ called' = "parse_kpi_response"
    /\ parsed' = parse_kpi_response(wire)
    /\ UNCHANGED <<record, wire, updates, wireKeys, extraKeys, extracted, run>>

CallParseMultiKpiResponse ==
    /\ CanParse
    /\ called' = "parse_multi_kpi_response"
    /\ parsed' = parse_multi_kpi_response(wire)
    /\ UNCHANGED <<record, wire, updates, wireKeys, extraKeys, extracted, run>>

CallParseIndividualKpiResponse ==
    /\ CanParse
    /\ called' = "parse_individual_kpi_response"
    /\ parsed' = parse_individual_kpi_response(wire)
    /\ UNCHANGED <<record, wire, updates, wireKeys, extraKeys, extracted, run>>

CallParseKpiDataUpdate ==
    /\ CanParse
    /\ called' = "parse_kpi_data_update"
    /\ parsed' = parse_kpi_data_update(wire)
    /\ UNCHANGED <<record, wire, updates, wireKeys, extraKeys, extracted, run>>

CallParseKpiErrorUpdate ==
    /\ CanParse
    /\ called' = "parse_kpi_error_update"
    /\ parsed' = parse_kpi_error_update(wire)
    /\ extraKeys' = (IF parsed'.st = "ok" THEN AdditionalKeys(wireKeys) ELSE <<>>)
    /\ UNCHANGED <<record, wire, updates, wireKeys, extracted, run>>

CallParseErrorResponse ==
    /\ CanParse
    /\ called' = "parse_error_response"
    /\ parsed' = parse_error_response(wire)
    /\ extraKeys' = (IF parsed'.st = "ok" THEN AdditionalKeys(wireKeys) ELSE <<>>)
    /\ UNCHANGED <<record, wire, updates, wireKeys, extracted, run>>

NextParse ==
    \/ CallParseKpiResponse
    \/ CallParseMultiKpiResponse
    \/ CallParseIndividualKpiResponse
    \/ CallParseKpiDataUpdate
    \/ CallParseKpiErrorUpdate
    \/ CallParseErrorResponse

SpecParse == InitParse /\ [][NextParse]_vars

----------------------------------------------------------------------------
(* Round-trip specification: a KPIDataUpdate is constructed, serialized     *)
(* with to_dict, and the result is parsed back (test_kpi_data_update).      *)

KPIDataUpdateSamples ==
    {KPIDataUpdate(tr, id, ts, ty, d, ids, ch, md) :
        tr \in {Str(""), Str("trace_20250814_143022_abc123")},
        id \in {Str(""), Str("cmc-btc-price")},
        ts \in {Str("2025-08-14T14:30:22Z")},
        ty \in {Str(""), Str("price")},
        d \in {None, EmptyDict, Dict("value" :> Num(45000)),
               Dict(("value" :> Num(45000)) @@ ("volume" :> Num(1000000)))},
        ids \in {None, List(<<>>), List(<<Str("cmc-btc-price")>>)},
        ch \in {None,
                ChartInfo(Str("https://example.com/chart.png"), Str("line"), Str("24h")),
                ChartInfo(Str(""), Str(""), Str(""))},
        md \in {None, EmptyDict, Dict("source" :> Str("coinmarketcap"))}}

InitRoundTrip ==
    /\ record \in KPIDataUpdateSamples
    /\ wire = None
    /\ called = ""
    /\ parsed = Pending
    /\ updates = Pending
    /\ wireKeys = <<>>
    /\ extraKeys = <<>>
    /\ extracted = Pending
    /\ run = NotRun

CallDataUpdateToDict ==
    /\ record.t = "obj" /\ record.cls = "KPIDataUpdate"
    /\ wire = None
    /\ wire' = KPIDataUpdate_to_dict(record)
    /\ wireKeys' = KeysInOrder(wire', KPIDataUpdate_key_order)
    /\ UNCHANGED <<record, called, parsed, updates, extraKeys, extracted, run>>

NextRoundTrip == CallDataUpdateToDict \/ CallParseKpiDataUpdate

SpecRoundTrip == InitRoundTrip /\ [][NextRoundTrip]_vars

----------------------------------------------------------------------------
(* Error round-trip specification: a KPIErrorUpdate is constructed,          *)
(* serialized with to_dict, and the result is parsed back                    *)
(* (test_kpi_error_update).                                                  *)

AdditionalFieldsSamples ==
    {None, EmptyDict,
     Dict("customField" :> Str("custom_value")),
     Dict(("customField" :> Str("custom_value")) @@ ("severity" :> Str("high"))),
     Dict("traceId" :> Str("other_trace")),
     Dict(("kpiId" :> Str("other-kpi")) @@ ("customField" :> Str("custom_value"))),
     Dict("retryCount" :> Num(9))}

KPIErrorUpdateSamples ==
    {KPIErrorUpdate(tr, er, ts, id, ids, rc, co, None, ex, af) :
        tr \in {Str(""), Str("trace_error_123")},
        er \in {EmptyDict, Str("Simple error message"),
                Dict(("message" :> Str("Network timeout")) @@ ("code" :> Str("TIMEOUT")))},
        ts \in {None, Str("2025-08-14T14:30:22Z")},
        id \in {None, Str("test-kpi")},
        ids \in {None, List(<<>>), List(<<Str("test-kpi")>>)},
        rc \in {None, Num(0), Num(2)},
        co \in {None, Str("data-collector")},
        ex \in {None, Str("")},
        af \in AdditionalFieldsSamples}

InitErrorRoundTrip ==
    /\ record \in KPIErrorUpdateSamples
    /\ wire = None
    /\ called = ""
    /\ parsed = Pending
    /\ updates = Pending
    /\ wireKeys = <<>>
    /\ extraKeys = <<>>
    /\ extracted = Pending
    /\ run = NotRun

CallErrorUpdateToDict ==
    /\ record.t = "obj" /\ record.cls = "KPIErrorUpdate"
    /\ wire = None
    /\ wire' = KPIErrorUpdate_to_dict(record)
    /\ wireKeys' = KPIErrorUpdate_to_dict_keys(record)
    /\ UNCHANGED <<record, called, parsed, updates, extraKeys, extracted, run>>

NextErrorRoundTrip == CallErrorUpdateToDict \/ CallParseKpiErrorUpdate

SpecErrorRoundTrip == InitErrorRoundTrip /\ [][NextErrorRoundTrip]_vars

----------------------------------------------------------------------------
(* Error parse specification: an error-shaped mapping arrives, its keys in   *)
(* one of two orders, and parse_kpi_error_update is called on it             *)
(* (test_flexible_error_parsing).                                            *)

ErrorOrderedWireSamples ==
    {MkDict(r) : r \in
        [traceId     : {Absent, Str("trace_complex")},
         error       : {Absent, Str("Simple error message"),
                        Dict("details" :> Str("Connection failed"))},
         kpiId       : {Absent, Str("test-kpi")},
         retryCount  : {Absent, Num(0)},
         workflowId  : {Absent, Str("wf_123")},
         kpiType     : {Absent, Str("price")},
         customField : {Absent, None, Str("custom_value")},
         severity    : {Absent, Str("high")}]}

Reverse(seq) == [i \in 1..Len(seq) |-> seq[Len(seq) + 1 - i]]

InitErrorParse ==
    /\ record = None
    /\ wire \in ErrorOrderedWireSamples
    /\ called = ""
    /\ parsed = Pending
    /\ updates = Pending
    /\ wireKeys \in {KeysInOrder(wire, SampleKeyOrder),
                     Reverse(KeysInOrder(wire, SampleKeyOrder))}
    /\ extraKeys = <<>>
    /\ extracted = Pending
    /\ run = NotRun

NextErrorParse == CallParseKpiErrorUpdate

SpecErrorParse == InitErrorParse /\ [][NextErrorParse]_vars

----------------------------------------------------------------------------
(* Error accessor specification: a KPIErrorUpdate is constructed around an   *)
(* error value and one of its accessors is called (test_kpi_error_update).   *)

ErrorValueSamples ==
    {MkDict(r) : r \in
        [message     : {Absent, None, Str(""), Str("401 - API key missing")},
         error       : {Absent, None, Str(""), Str("Unauthorized")},
         description : {Absent, None, Str(""), Str("The API key is missing")}]}
    \cup {MkDict(r) : r \in
        [code      : {Absent, None, Str(""), Num(0), Str("ERR_BAD_REQUEST")},
         errorCode : {Absent, Str(""), Str("E42")},
         status    : {Absent, None, Num(0), Num(401)}]}
    \cup {MkDict(r) : r \in
        [name      : {Absent, None, Str(""), Str("AxiosError")},
         type      : {Absent, None, Str(""), Str("network")},
         errorType : {Absent, None, Str(""), Str("TimeoutError")}]}
    \cup {Str("Simple error message"), Str(""), Num(500)}

InitErrorAccess ==
    /\ record \in {KPIErrorUpdate(Str("trace_20250814_143022_abc123"), er,
                                  None, None, None, None, None, None, None, None) :
                      er \in ErrorValueSamples}
    /\ wire = None
    /\ called = ""
    /\ parsed = Pending
    /\ updates = Pending
    /\ wireKeys = <<>>
    /\ extraKeys = <<>>
    /\ extracted = Pending
    /\ run = NotRun

CanExtract == record.t = "obj" /\ record.cls = "KPIErrorUpdate" /\ extracted = Pending

CallGetErrorMessage ==
    /\ CanExtract
    /\ called' = "get_error_message"
    /\ extracted' = Ok(get_error_message(record))
    /\ UNCHANGED <<record, wire, parsed, updates, wireKeys, extraKeys, run>>

CallGetErrorCode ==
    /\ CanExtract
    /\ called' = "get_error_code"
    /\ extracted' = Ok(get_error_code(record))
    /\ UNCHANGED <<record, wire, parsed, updates, wireKeys, extraKeys, run>>

CallGetErrorType ==
    /\ CanExtract
    /\ called' = "get_error_type"
    /\ extracted' = Ok(get_error_type(record))
    /\ UNCHANGED <<record, wire, parsed, updates, wireKeys, extraKeys, run>>

NextErrorAccess == CallGetErrorMessage \/ CallGetErrorCode \/ CallGetErrorType

SpecErrorAccess == InitErrorAccess /\ [][NextErrorAccess]_vars

----------------------------------------------------------------------------
(* Serialization specification: a record of one of the four serializable     *)
(* classes is constructed and its to_dict is called once.                    *)

\* aggregate responses as to_dict distinguishes them: kpi_ids absent, empty
\* or not, data absent or not, metadata absent, empty or not
AggregateSerializeSamples ==
    LET Ids(k) == {None, List(<<>>), List(<<Str(k)>>), List(<<Str(k), Str("unknown-kpi")>>)}
        Md == {None, EmptyDict, Dict("source" :> Str("cbbi"))}
    IN {CBBIMultiKPIResponse(tr, ts, ids, d, md) :
            tr \in TraceIdSamples, ts \in TimestampSamples, ids \in Ids(CBBIKeys[2]),
            d \in {None} \cup CBBIDataSamples, md \in Md}
       \cup
       {CMCMultiKPIResponse(tr, ts, ids, d, md) :
            tr \in TraceIdSamples, ts \in TimestampSamples, ids \in Ids(CMCKeys[1]),
            d \in {None} \cup CMCDataSamples, md \in Md}

InitSerialize ==
    /\ record \in KPIDataUpdateSamples \cup KPIErrorUpdateSamples
                    \cup AggregateSerializeSamples
    /\ wire = None
    /\ called = ""
    /\ parsed = Pending
    /\ updates = Pending
    /\ wireKeys = <<>>
    /\ extraKeys = <<>>
    /\ extracted = Pending
    /\ run = NotRun

CallCBBIToDict ==
    /\ record.t = "obj" /\ record.cls = "CBBIMultiKPIResponse"
    /\ wire = None
    /\ wire' = CBBIMultiKPIResponse_to_dict(record)
    /\ wireKeys' = KeysInOrder(wire', Aggregate_key_order)
    /\ UNCHANGED <<record, called, parsed, updates, extraKeys, extracted, run>>

CallCMCToDict ==
    /\ record.t = "obj" /\ record.cls = "CMCMultiKPIResponse"
    /\ wire = None
    /\ wire' = CMCMultiKPIResponse_to_dict(record)
    /\ wireKeys' = KeysInOrder(wire', Aggregate_key_order)
    /\ UNCHANGED <<record, called, parsed, updates, extraKeys, extracted, run>>

NextSerialize ==
    \/ CallDataUpdateToDict
    \/ CallErrorUpdateToDict
    \/ CallCBBIToDict
    \/ CallCMCToDict

SpecSerialize == InitSerialize /\ [][NextSerialize]_vars

----------------------------------------------------------------------------
(* Aggregate round-trip specification: an aggregate response is constructed, *)
(* serialized with to_dict, and the result is parsed back with               *)
(* parse_multi_kpi_response (test_multi_kpi_responses).                      *)

InitAggregateRoundTrip ==
    /\ record \in AggregateSerializeSamples
    /\ wire = None
    /\ called = ""
    /\ parsed = Pending
    /\ updates = Pending
    /\ wireKeys = <<>>
    /\ extraKeys = <<>>
    /\ extracted = Pending
    /\ run = NotRun

NextAggregateRoundTrip == CallCBBIToDict \/ CallCMCToDict \/ CallParseMultiKpiResponse

SpecAggregateRoundTrip == InitAggregateRoundTrip /\ [][NextAggregateRoundTrip]_vars

----------------------------------------------------------------------------
(* Ingestion specification: an aggregate-shaped mapping arrives, is parsed   *)
(* with parse_multi_kpi_response, and the parsed response is fanned out      *)
(* with to_kpi_data_updates (example_ingestion_worker_processing).           *)

\* data mappings of an inbound aggregate: each sub-field missing, null or set
AggregateDataWireSamples ==
    {Absent, None}
    \cup {Dict((IF a = Absent THEN <<>> ELSE "cbbi-rhodl" :> a)
                @@ (IF b = Absent THEN <<>> ELSE "cbbi-mvrv" :> b)
                @@ (IF c = Absent THEN <<>> ELSE "cmc-btc-dominance" :> c)) :
            a \in {Absent, None, Num(0), Num(1)},
            b \in {Absent, None, Num(2)},
            c \in {Absent, None, Num(42)}}

AggregateWireSamples ==
    {MkDict(r) : r \in
        [traceId   : {Str("trace_456")},
         timestamp : {Str("2025-08-14T14:30:22Z")},
         kpiType   : {Str("cbbi-multi"), Str("cmc-multi")},
         kpiIds    : {Absent} \cup
                     {List(l) : l \in SeqsUpTo({Str("cbbi-rhodl"), Str("cbbi-mvrv"),
                                                Str("cmc-btc-dominance"),
                                                Str("unknown-kpi")}, MaxWireIds)},
         data      : AggregateDataWireSamples]}

InitIngest ==
    /\ record = None
    /\ wire \in AggregateWireSamples
    /\ called = ""
    /\ parsed = Pending
    /\ updates = Pending
    /\ wireKeys = KeysInOrder(wire, SampleKeyOrder)
    /\ extraKeys = <<>>
    /\ extracted = Pending
    /\ run = NotRun

\* multi_response.to_kpi_data_updates() on the response just parsed
CallNormalizeParsedCBBI ==
    /\ parsed.st = "ok" /\ parsed.val.cls = "CBBIMultiKPIResponse"
    /\ updates = Pending
    /\ record' = parsed.val
    /\ updates' = CBBI_to_kpi_data_updates(parsed.val)
    /\ UNCHANGED <<wire, called, parsed, wireKeys, extraKeys, extracted, run>>

CallNormalizeParsedCMC ==
    /\ parsed.st = "ok" /\ parsed.val.cls = "CMCMultiKPIResponse"
    /\ updates = Pending
    /\ record' = parsed.val
    /\ updates' = CMC_to_kpi_data_updates(parsed.val)
    /\ UNCHANGED <<wire, called, parsed, wireKeys, extraKeys, extracted, run>>

NextIngest ==
    \/ CallParseMultiKpiResponse
    \/ CallNormalizeParsedCBBI
    \/ CallNormalizeParsedCMC

SpecIngest == InitIngest /\ [][NextIngest]_vars

----------------------------------------------------------------------------
(* Validator script: src/validation/webhook_validator.py *)

\* What requests.post and response.json() can do for one call. A 200 body
\* that is not JSON makes response.json() raise
\* requests.exceptions.JSONDecodeError, which is a RequestException.
HttpOk(body) == [kind |-> "200", body |-> body]
HttpStatus(code) == [kind |-> "status", code |-> code]
HttpRaises(exc) == [kind |-> "raises", exc |-> exc]

\* Mutant: test_webhook has no except clause
test_webhook_uncaught(outcome) ==
    CASE outcome.kind = "200"    -> Ok(outcome.body)
      [] outcome.kind = "status" -> Ok(None)
      [] OTHER                   -> Raised(outcome.exc, <<"Failed to call webhook">>)

\* WebhookValidator.test_webhook: the JSON body of a 200 response, else None
test_webhook(outcome) ==
    CASE outcome.kind = "200"    -> Ok(outcome.body)
      [] outcome.kind = "status" -> Ok(None)
      [] OTHER                   -> Ok(None)

IsNumeric(v) == v.t = "num"

\* the checks both validators make on the parsed response, after the
\* isinstance test
ResponseChecks(response, data_dict, kpi_updates) ==
    IF ~Truthy(response.trace_id) \/ ~Truthy(response.timestamp)
         \/ ~Truthy(response.kpi_type) THEN FALSE
    ELSE IF Truthy(response.data)
              /\ \E k \in DOMAIN data_dict.m : ~IsNumeric(data_dict.m[k]) THEN FALSE
    ELSE IF kpi_updates.st = "raised" THEN FALSE
    ELSE IF Len(kpi_updates.val.l) = 0 THEN FALSE
    ELSE TRUE

\* Mutant: the variant of the parsed response is not checked
validate_cbbi_response_any_variant(response_data) ==
    IF response_data.t # "dict" THEN FALSE
    ELSE LET r == parse_multi_kpi_response(response_data)
         IN IF r.st = "raised" THEN FALSE
            ELSE IF r.val.cls = "CBBIMultiKPIResponse"
              THEN ResponseChecks(r.val,
                                  IF Truthy(r.val.data)
                                    THEN CBBIData_to_dict(r.val.data) ELSE EmptyDict,
                                  CBBI_to_kpi_data_updates(r.val))
            ELSE ResponseChecks(r.val,
                                IF Truthy(r.val.data)
                                  THEN CMCData_to_dict(r.val.data) ELSE EmptyDict,
                                CMC_to_kpi_data_updates(r.val))

\* WebhookValidator.validate_cbbi_response; every exception ends in False
validate_cbbi_response(response_data) ==
    IF response_data.t # "dict" THEN FALSE
    ELSE LET r == parse_multi_kpi_response(response_data)
         IN IF r.st = "raised" THEN FALSE
            ELSE IF r.val.cls # "CBBIMultiKPIResponse" THEN FALSE
            ELSE IF r.val.kpi_type # Str("cbbi-multi") THEN FALSE
            ELSE ResponseChecks(r.val,
                                IF Truthy(r.val.data)
                                  THEN CBBIData_to_dict(r.val.data) ELSE EmptyDict,
                                CBBI_to_kpi_data_updates(r.val))

\* WebhookValidator.validate_cmc_response
validate_cmc_response(response_data) ==
    IF response_data.t # "dict" THEN FALSE
    ELSE LET r == parse_multi_kpi_response(response_data)
         IN IF r.st = "raised" THEN FALSE
            ELSE IF r.val.cls # "CMCMultiKPIResponse" THEN FALSE
            ELSE IF r.val.kpi_type # Str("cmc-multi") THEN FALSE
            ELSE ResponseChecks(r.val,
                                IF Truthy(r.val.data)
                                  THEN CMCData_to_dict(r.val.data) ELSE EmptyDict,
                                CMC_to_kpi_data_updates(r.val))

----------------------------------------------------------------------------
(* Validator specification: main() runs run_validation, which calls the      *)
(* CBBI webhook, then the CMC webhook, then returns the results to main,     *)
(* which decides the exit status.                                            *)

\* JSON bodies a webhook may answer with
BodySamples ==
    {None, EmptyDict, List(<<>>), List(<<Num(1)>>), Str("Workflow was started"),
     Dict(("traceId" :> Str("validation_cbbi-multi")) @@ ("kpiType" :> Str("cbbi-multi"))
          @@ ("kpiIds" :> List(<<Str("cbbi-rhodl")>>))
          @@ ("data" :> Dict("cbbi-rhodl" :> Num(1)))),
     Dict(("traceId" :> Str("validation_cmc-multi")) @@ ("timestamp" :> Str(""))
          @@ ("kpiType" :> Str("cmc-multi"))
          @@ ("kpiIds" :> List(<<Str("cmc-btc-dominance")>>))
          @@ ("data" :> Dict("cmc-btc-dominance" :> Num(42))))}
    \cup
    {MkDict(r) : r \in
        [traceId   : {Absent, Str(""), Str("validation_20250814_143022")},
         timestamp : {Str("2025-08-14T14:30:22Z")},
         kpiType   : {Absent, Str("cbbi-multi"), Str("cmc-multi")},
         kpiIds    : {Absent, List(<<Str("cbbi-rhodl")>>),
                      List(<<Str("cmc-btc-dominance")>>)},
         data      : {Absent, EmptyDict,
                      Dict(("cbbi-rhodl" :> Num(1)) @@ ("cmc-btc-dominance" :> Num(42))),
                      Dict(("cbbi-rhodl" :> None) @@ ("cmc-btc-dominance" :> None)),
                      Dict(("cbbi-rhodl" :> Str("high"))
                           @@ ("cmc-btc-dominance" :> Str("high")))}]}

HttpOutcomes ==
    {HttpRaises("ConnectionError"), HttpRaises("Timeout"), HttpRaises("JSONDecodeError"),
     HttpStatus(404), HttpStatus(500)}
    \cup {HttpOk(b) : b \in BodySamples}

InitValidator ==
    /\ record = None
    /\ wire = None
    /\ called = ""
    /\ parsed = Pending
    /\ updates = Pending
    /\ wireKeys = <<>>
    /\ extraKeys = <<>>
    /\ extracted = Pending
    /\ run = [pc |-> "start", calls |-> <<>>, http |-> <<>>, results |-> <<>>,
              exit |-> None]

\* all(results.values())
AllPassed(results) == \A k \in DOMAIN results : results[k]

\* Mutant: an endpoint is only validated while every earlier result is a pass
EndpointStep_shared(path, name, o, passed, next) ==
    LET response == test_webhook(o)
    IN [run EXCEPT !.pc = next, !.calls = Append(@, path),
                   !.http = (name :> o) @@ @,
                   !.results = (name :> (Truthy(response.val) /\ passed
                                           /\ AllPassed(run.results))) @@ @]

\* one endpoint's part of run_validation: the call, then the result entry;
\* an exception leaving test_webhook ends the script with a traceback
EndpointStep(path, name, o, passed, next) ==
    LET response == test_webhook(o)
    IN IF response.st = "raised"
         THEN [run EXCEPT !.pc = "crashed", !.calls = Append(@, path),
                          !.http = (name :> o) @@ @, !.exit = Num(1)]
         ELSE [run EXCEPT !.pc = next, !.calls = Append(@, path),
                          !.http = (name :> o) @@ @,
                          !.results = (name :> (Truthy(response.val) /\ passed)) @@ @]

CallCBBIWebhook ==
    /\ run.pc = "start"
    /\ \E o \in HttpOutcomes :
          run' = EndpointStep("kpi-cbbi", "cbbi", o,
                              o.kind = "200" /\ validate_cbbi_response(o.body), "cbbi done")
    /\ UNCHANGED schemaVars

CallCMCWebhook ==
    /\ run.pc = "cbbi done"
    /\ \E o \in HttpOutcomes :
          run' = EndpointStep("kpi-cmc", "cmc", o,
                              o.kind = "200" /\ validate_cmc_response(o.body), "cmc done")
    /\ UNCHANGED schemaVars

ReturnResults ==
    /\ run.pc = "cmc done"
    /\ run' = [run EXCEPT !.pc = "returned"]
    /\ UNCHANGED schemaVars

\* Mutant: main exits with status 0 whatever the results are
MainExitStatus_zero(results) == Num(0)

\* main: sys.exit(1) if not all(results.values()), else a normal return
MainExitStatus(results) == IF ~AllPassed(results) THEN Num(1) ELSE Num(0)

MainExit ==
    /\ run.pc = "returned"
    /\ run' = [run EXCEPT !.pc = "exited", !.exit = MainExitStatus(run.results)]
    /\ UNCHANGED schemaVars

NextValidator == CallCBBIWebhook \/ CallCMCWebhook \/ ReturnResults \/ MainExit

SpecValidator == InitValidator /\ [][NextValidator]_vars

----------------------------------------------------------------------------
(* The whole system: any of the entry states, any of the calls *)

Init ==
    InitNormalize \/ InitParse \/ InitRoundTrip \/ InitErrorRoundTrip \/ InitSerialize
      \/ InitErrorParse \/ InitErrorAccess \/ InitAggregateRoundTrip
      \/ InitIngest \/ InitValidator

Next ==
    NextNormalize \/ NextParse \/ NextRoundTrip \/ NextErrorRoundTrip \/ NextSerialize
      \/ NextErrorParse \/ NextErrorAccess \/ NextAggregateRoundTrip
      \/ NextIngest \/ NextValidator

Spec == Init /\ [][Next]_vars

----------------------------------------------------------------------------
(* Properties of the normalizer *)

IsAggregate(r) == r.t = "obj" /\ r.cls \in {"CBBIMultiKPIResponse", "CMCMultiKPIResponse"}

\* External keys of the source of an aggregate response
ExternalKeys(r) == IF r.cls = "CBBIMultiKPIResponse" THEN Range(CBBIKeys) ELSE Range(CMCKeys)

\* The aggregate's data in its external key-mapping form
SerializedAggregate(r) ==
    IF r.cls = "CBBIMultiKPIResponse" THEN CBBIData_to_dict(r.data) ELSE CMCData_to_dict(r.data)

HasValue(r, id) == DictGet(SerializedAggregate(r), id, None) # None

Normalized == updates # Pending /\ IsAggregate(record)

\* data and kpi_ids are both present
FanOutCase == Normalized /\ record.data # None /\ record.kpi_ids # None

\* positions of kpi_ids whose id has a value in the serialized aggregate
HitPositions(r) == {i \in 1..Len(r.kpi_ids.l) : HasValue(r, r.kpi_ids.l[i])}

\* the j-th smallest element of a set of positions
NthPosition(P, j) == CHOOSE i \in P : Cardinality({k \in P : k < i}) = j - 1

Occurrences(seq, P(_)) == Cardinality({i \in 1..Len(seq) : P(seq[i])})

\* C1: with data and kpi_ids present, to_kpi_data_updates emits, in the declared
\* order of kpi_ids, exactly one record per listed id that has a value in the
\* serialized aggregate, with kpi_id equal to that id and data = {"value": v};
\* when kpi_ids lists the aggregate's keys and all values are set, the number
\* of records is the length of kpi_ids.
C1_FanOutInOrder ==
    FanOutCase =>
        /\ updates.st = "ok"
        /\ LET ids == record.kpi_ids.l
               out == updates.val.l
               hit == HitPositions(record)
           IN /\ Len(out) = Cardinality(hit)
              /\ \A j \in 1..Len(out) :
                    LET i == NthPosition(hit, j)
                    IN /\ out[j].kpi_id = ids[i]
                       /\ out[j].data =
                            Dict("value" :> SerializedAggregate(record).m[ids[i].s])
              /\ (/\ \A i \in 1..Len(ids) : ids[i].s \in ExternalKeys(record)
                  /\ \A k \in ExternalKeys(record) :
                        SerializedAggregate(record).m[k] # None)
                 => Len(out) = Len(ids)

\* C1 witness: all four keys listed, full data, four records (test_multi_kpi_responses)
C1_Witness ==
    /\ FanOutCase
    /\ Len(record.kpi_ids.l) = 4
    /\ {record.kpi_ids.l[i].s : i \in 1..4} = ExternalKeys(record)
    /\ Len(updates.val.l) = 4
    /\ updates.val.l[1].data = Dict("value" :> Num(0))

\* C2: every emitted record carries the aggregate's trace_id, timestamp and
\* kpi_type ("cbbi-multi" / "cmc-multi"), the full original kpi_ids list and the
\* aggregate's metadata unchanged.
C2_SharedProvenance ==
    (Normalized /\ updates.st = "ok") =>
        \A j \in 1..Len(updates.val.l) :
            LET u == updates.val.l[j]
            IN /\ u.cls = "KPIDataUpdate"
               /\ u.trace_id = record.trace_id
               /\ u.timestamp = record.timestamp
               /\ u.kpi_type = record.kpi_type
               /\ u.kpi_type = (IF record.cls = "CBBIMultiKPIResponse"
                                  THEN Str("cbbi-multi") ELSE Str("cmc-multi"))
               /\ u.kpi_ids = record.kpi_ids
               /\ u.metadata = record.metadata

\* C2 witness: a fan-out of several records of a batch that lists more ids than
\* the one emitted, with metadata set
C2_Witness ==
    /\ Normalized /\ updates.st = "ok"
    /\ Len(updates.val.l) >= 2
    /\ updates.val.l[1].kpi_id # updates.val.l[2].kpi_id
    /\ record.metadata # None
    /\ updates.val.l[2].metadata = record.metadata

\* C3: an id of kpi_ids with no corresponding value in the serialized aggregate
\* produces no record and no error, and the other ids of the batch are still
\* emitted (once per listing).
C3_PartialMiss ==
    (Normalized /\ Truthy(record.data) /\ Truthy(record.kpi_ids)) =>
        /\ updates.st = "ok"
        /\ \A i \in 1..Len(record.kpi_ids.l) :
              LET id == record.kpi_ids.l[i]
                  SameId(x) == x = id
                  OfId(u) == u.kpi_id = id
              IN Occurrences(updates.val.l, OfId) =
                    (IF HasValue(record, id)
                       THEN Occurrences(record.kpi_ids.l, SameId) ELSE 0)

\* C3 witness: an id without a value is listed before one with a value, and the
\* later one is emitted
C3_Witness ==
    /\ Normalized /\ Truthy(record.data) /\ Truthy(record.kpi_ids)
    /\ Len(record.kpi_ids.l) >= 2
    /\ ~HasValue(record, record.kpi_ids.l[1])
    /\ HasValue(record, record.kpi_ids.l[2])
    /\ updates.st = "ok"
    /\ Len(updates.val.l) >= 1
    /\ updates.val.l[1].kpi_id = record.kpi_ids.l[2]

\* C4: when data is absent or kpi_ids is absent, to_kpi_data_updates returns an
\* empty sequence and does not fail.
C4_EmptyInput ==
    (Normalized /\ (record.data = None \/ record.kpi_ids = None)) =>
        updates = Ok(List(<<>>))

\* C4 witness: kpi_ids absent with data present, normalized to the empty list
C4_Witness ==
    /\ Normalized
    /\ record.kpi_ids = None /\ record.data # None
    /\ updates = Ok(List(<<>>))

----------------------------------------------------------------------------
(* Properties of the parse layer *)

MultiLiterals == {Str("cbbi-multi"), Str("cmc-multi")}

WireKpiType == Get(wire, "kpiType", None)

Did(fn) == called = fn /\ parsed # Pending

\* the mapping has what aggregate construction dereferences
AggregateWellFormed ==
    /\ Has(wire, "traceId") /\ Has(wire, "timestamp")
    /\ ~(HasRawData(wire) /\ wire.m["data"].t # "dict")

AggregateClassOf(kpi_type) ==
    IF kpi_type = Str("cbbi-multi") THEN "CBBIMultiKPIResponse" ELSE "CMCMultiKPIResponse"

\* C5: parse_kpi_response checks the multi type before kpiId: a mapping whose
\* kpiType is "cbbi-multi" or "cmc-multi" is routed to multi-KPI construction
\* (the CBBI resp. CMC aggregate) even when it has a kpiId key, and never
\* yields an individual-KPI response.
C5_MultiBeforeKpiId ==
    (Did("parse_kpi_response") /\ WireKpiType \in MultiLiterals) =>
        /\ parsed = parse_multi_kpi_response(wire)
        /\ parsed.st = "ok" => parsed.val.cls = AggregateClassOf(WireKpiType)
        /\ AggregateWellFormed => parsed.st = "ok"
        /\ parsed.st = "raised" => parsed.exc \in {"KeyError", "AttributeError"}

\* C5 witness: kpiType "cbbi-multi" together with a kpiId key gives the CBBI aggregate
C5_Witness ==
    /\ Did("parse_kpi_response")
    /\ WireKpiType = Str("cbbi-multi")
    /\ Has(wire, "kpiId")
    /\ parsed.st = "ok"
    /\ parsed.val.cls = "CBBIMultiKPIResponse"

\* C6: parse_multi_kpi_response fails with the unknown-multi-KPI-type error
\* naming the offending value for every kpiType other than the two literals
\* (an absent one included) and builds no record; "cbbi-multi" is built as a
\* CBBIMultiKPIResponse and "cmc-multi" as a CMCMultiKPIResponse.
C6_UnknownMultiType ==
    Did("parse_multi_kpi_response") =>
        IF WireKpiType \in MultiLiterals
          THEN /\ parsed # UnknownMultiKPIType(WireKpiType)
               /\ parsed.st = "ok" => parsed.val.cls = AggregateClassOf(WireKpiType)
               /\ AggregateWellFormed => parsed.st = "ok"
          ELSE /\ parsed.st = "raised"
               /\ parsed.exc = "ValueError"
               /\ parsed.msg[1] = "Unknown multi-KPI type: "
               /\ parsed.msg[2] =
                    (IF Has(wire, "kpiType") /\ wire.m["kpiType"].t = "str"
                       THEN wire.m["kpiType"].s ELSE "None")

\* C6 witness: kpiType "bogus-multi" is rejected by name
C6_Witness ==
    /\ Did("parse_multi_kpi_response")
    /\ WireKpiType = Str("bogus-multi")
    /\ AggregateWellFormed
    /\ parsed = Raised("ValueError", <<"Unknown multi-KPI type: ", "bogus-multi">>)

\* C7: for a kpiType that is not a multi-KPI literal, parse_kpi_response parses
\* the mapping as an individual-KPI response if it has a kpiId key and fails
\* with the indeterminate-shape error otherwise; every call ends in a CBBI
\* aggregate, a CMC aggregate, an individual response, or an error.
C7_IndividualOrIndeterminate ==
    Did("parse_kpi_response") =>
        /\ WireKpiType \notin MultiLiterals =>
              IF Has(wire, "kpiId")
                THEN /\ parsed = parse_individual_kpi_response(wire)
                     /\ parsed.st = "ok" => parsed.val.cls = "IndividualKPIResponse"
                     /\ parsed # IndeterminateShape
                ELSE parsed = IndeterminateShape
        /\ \/ parsed.st = "raised"
           \/ /\ parsed.st = "ok"
              /\ parsed.val.cls \in {"CBBIMultiKPIResponse", "CMCMultiKPIResponse",
                                     "IndividualKPIResponse"}

\* C7 witness: a complete mapping of kpiType "price" without kpiId is of
\* indeterminate shape
C7_Witness ==
    /\ Did("parse_kpi_response")
    /\ WireKpiType = Str("price")
    /\ ~Has(wire, "kpiId")
    /\ Has(wire, "traceId") /\ Has(wire, "timestamp") /\ Has(wire, "data")
    /\ parsed = IndeterminateShape

MissingRequired == {f \in Range(required_fields) : ~Has(wire, f)}

IsMissingFieldError(r) ==
    /\ r.st = "raised" /\ r.exc = "ValueError"
    /\ Len(r.msg) = 3 /\ r.msg[1] = "Required field '"

\* C8: parse_kpi_data_update / KPIDataUpdate.from_dict on a mapping lacking any
\* of traceId, kpiId, timestamp, kpiType, data fails with a missing-field error
\* naming a field that is missing and builds no record; with all five present
\* it does not fail for a missing field.
C8_MissingField ==
    Did("parse_kpi_data_update") =>
        IF MissingRequired # {}
          THEN /\ IsMissingFieldError(parsed)
               /\ parsed.msg[2] \in MissingRequired
          ELSE ~IsMissingFieldError(parsed)

\* C8 witness: a mapping lacking only data is rejected naming "data"
C8_Witness ==
    /\ Did("parse_kpi_data_update")
    /\ MissingRequired = {"data"}
    /\ parsed = MissingFieldError("data")

ErrorAbsentOrEmpty == ~Has(wire, "error") \/ ~Truthy(wire.m["error"])

\* C9 as stated: KPIErrorUpdate.from_dict fails when traceId is absent, and
\* fails with a different missing-field error when traceId is present but
\* error is absent or empty.
C9_Original ==
    Did("parse_kpi_error_update") =>
        /\ ~Has(wire, "traceId") => parsed = TraceIdRequired
        /\ (Has(wire, "traceId") /\ ErrorAbsentOrEmpty) =>
              /\ parsed.st = "raised"
              /\ parsed # TraceIdRequired

\* C9 amended: KPIErrorUpdate.from_dict fails with the traceId error when
\* traceId is absent, null or empty, and with a different missing-field error
\* when traceId is present and non-empty but error is absent or empty; no
\* record is built in either case.
C9_DistinctErrors ==
    Did("parse_kpi_error_update") =>
        /\ (~Has(wire, "traceId") \/ ~Truthy(wire.m["traceId"])) =>
              parsed = TraceIdRequired
        /\ (Has(wire, "traceId") /\ Truthy(wire.m["traceId"]) /\ ErrorAbsentOrEmpty) =>
              /\ parsed.st = "raised"
              /\ parsed.exc = "ValueError"
              /\ parsed.msg = <<"error field is required in error response">>
              /\ parsed # TraceIdRequired

\* C9 witness: traceId set and error an empty mapping: the error-field error
C9_Witness ==
    /\ Did("parse_kpi_error_update")
    /\ Has(wire, "traceId") /\ Truthy(wire.m["traceId"])
    /\ Has(wire, "error") /\ wire.m["error"] = EmptyDict
    /\ parsed = ErrorRequired

----------------------------------------------------------------------------
(* Properties of the round trip *)

RoundTripped ==
    /\ record.t = "obj" /\ record.cls = "KPIDataUpdate"
    /\ Did("parse_kpi_data_update")

\* C10: for a validly constructed KPIDataUpdate, with any combination of
\* kpi_ids, chart and metadata, parse_kpi_data_update(update.to_dict())
\* succeeds and yields a record with equal trace_id, kpi_id and data.
C10_DataRoundTrip ==
    (RoundTripped /\ KPIDataUpdate_validate(record)) =>
        /\ parsed.st = "ok"
        /\ parsed.val.cls = "KPIDataUpdate"
        /\ parsed.val.trace_id = record.trace_id
        /\ parsed.val.kpi_id = record.kpi_id
        /\ parsed.val.data = record.data

\* C10 witness: a valid update with kpi_ids, chart and metadata that came back
C10_Witness ==
    /\ RoundTripped /\ KPIDataUpdate_validate(record)
    /\ Truthy(record.kpi_ids) /\ record.chart # None /\ Truthy(record.metadata)
    /\ record.data = Dict(("value" :> Num(45000)) @@ ("volume" :> Num(1000000)))
    /\ parsed.st = "ok"
    /\ parsed.val.data = record.data
    /\ parsed.val.chart = record.chart


----------------------------------------------------------------------------
(* Properties of the error round trip *)

ErrorRoundTripped ==
    /\ record.t = "obj" /\ record.cls = "KPIErrorUpdate"
    /\ wire # None
    /\ Did("parse_kpi_error_update")

\* the three things the round trip is said to preserve
ErrorPreserved ==
    /\ parsed.st = "ok"
    /\ parsed.val.trace_id = record.trace_id
    /\ get_error_message(parsed.val) = get_error_message(record)
    /\ parsed.val.additional_fields = record.additional_fields

CollidesWithKnown(af) == af.t = "dict" /\ DOMAIN af.m \cap known_fields # {}

\* C11 as stated: any record that satisfies validate() comes back with the
\* same trace_id, error message and additional_fields.
C11_Original ==
    (ErrorRoundTripped /\ KPIErrorUpdate_validate(record)) => ErrorPreserved

\* C11 (amended): a record that satisfies validate() and whose
\* additional_fields is absent, or non-empty with no key of the known-key
\* set, comes back with the same trace_id, error message and
\* additional_fields; an empty additional_fields comes back absent.
C11_ErrorRoundTrip ==
    (ErrorRoundTripped /\ KPIErrorUpdate_validate(record)
        /\ ~CollidesWithKnown(record.additional_fields))
    => /\ parsed.st = "ok"
       /\ parsed.val.trace_id = record.trace_id
       /\ get_error_message(parsed.val) = get_error_message(record)
       /\ parsed.val.additional_fields =
            (IF record.additional_fields = EmptyDict THEN None
             ELSE record.additional_fields)

C11_Witness ==
    /\ ErrorRoundTripped /\ KPIErrorUpdate_validate(record)
    /\ record.additional_fields.t = "dict"
    /\ Cardinality(DOMAIN record.additional_fields.m) = 2
    /\ ~CollidesWithKnown(record.additional_fields)
    /\ parsed.st = "ok"
    /\ parsed.val.additional_fields = record.additional_fields


----------------------------------------------------------------------------
(* Properties of serialization *)

Serialized == record.t = "obj" /\ wire # None /\ parsed = Pending

\* the optional attributes of each class and the key each is written under
OptionalFields(cls) ==
    CASE cls = "KPIDataUpdate" ->
           {<<"kpi_ids", "kpiIds">>, <<"chart", "chart">>, <<"metadata", "metadata">>}
      [] cls = "KPIErrorUpdate" ->
           {<<"timestamp", "timestamp">>, <<"kpi_id", "kpiId">>, <<"kpi_ids", "kpiIds">>,
            <<"retry_count", "retryCount">>, <<"component", "component">>,
            <<"workflow_id", "workflowId">>, <<"execution_id", "executionId">>}
      [] OTHER ->
           {<<"kpi_ids", "kpiIds">>, <<"data", "data">>, <<"metadata", "metadata">>}

RequiredKeys(cls) ==
    CASE cls = "KPIDataUpdate" -> {"traceId", "kpiId", "timestamp", "kpiType", "data"}
      [] cls = "KPIErrorUpdate" -> {"traceId", "error"}
      [] OTHER -> {"traceId", "timestamp", "kpiType"}

\* the keys a caller supplied through additional_fields
SuppliedKeys(r) ==
    IF r.cls = "KPIErrorUpdate" /\ r.additional_fields.t = "dict"
      THEN DOMAIN r.additional_fields.m ELSE {}

AllOptionalAbsent(r) ==
    /\ \A f \in OptionalFields(r.cls) : r[f[1]] = None
    /\ r.cls = "KPIErrorUpdate" => r.additional_fields = None

\* C12: to_dict of a record whose optional fields are all absent emits
\* exactly the required keys; an absent optional field never puts its key in
\* the result, and no key maps to null on account of an absent optional field.
C12_OmissionFidelity ==
    Serialized =>
      /\ AllOptionalAbsent(record) => DOMAIN wire.m = RequiredKeys(record.cls)
      /\ \A f \in OptionalFields(record.cls) :
            record[f[1]] = None => (f[2] \notin DOMAIN wire.m \/ f[2] \in SuppliedKeys(record))
      /\ \A k \in DOMAIN wire.m :
            wire.m[k] = None => k \in RequiredKeys(record.cls) \cup SuppliedKeys(record)

C12_Witness ==
    /\ Serialized /\ AllOptionalAbsent(record)
    /\ record.cls = "KPIErrorUpdate"
    /\ DOMAIN wire.m = {"traceId", "error"}


----------------------------------------------------------------------------
(* Properties of the error record *)

\* the known-key set as the contract lists it
ContractKnownKeys ==
    {"traceId", "error", "timestamp", "kpiId", "kpiIds", "retryCount", "component",
     "workflowId", "executionId"}

PositionIn(seq, k) == CHOOSE i \in 1..Len(seq) : seq[i] = k

ErrorParsed == wire # None /\ Did("parse_kpi_error_update") /\ parsed.st = "ok"

\* C13: a parsed error record's additional_fields holds exactly the input's
\* keys outside the known-key set, each with its input value, in input
\* order; it is None when the input has no such key.
C13_AdditionalFields ==
    ErrorParsed =>
      LET af == parsed.val.additional_fields
          unknown == DOMAIN wire.m \ ContractKnownKeys
      IN IF unknown = {}
           THEN af = None /\ extraKeys = <<>>
           ELSE /\ af.t = "dict"
                /\ DOMAIN af.m = unknown
                /\ \A k \in unknown : af.m[k] = wire.m[k]
                /\ Len(extraKeys) = Cardinality(unknown)
                /\ \A i \in 1..Len(extraKeys) : extraKeys[i] \in unknown
                /\ \A i, j \in 1..Len(extraKeys) :
                      i < j => PositionIn(wireKeys, extraKeys[i])
                                 < PositionIn(wireKeys, extraKeys[j])

C13_Witness ==
    /\ ErrorParsed
    /\ wireKeys # KeysInOrder(wire, SampleKeyOrder)
    /\ "kpiId" \in DOMAIN wire.m
    /\ extraKeys = <<"severity", "customField", "kpiType">>
    /\ parsed.val.additional_fields.m["customField"] = None


\* the known keys to_dict writes for record r, with the value of the field
KnownWritten(r) ==
    {<<"traceId", r.trace_id>>, <<"error", r.error>>}
      \cup {<<f[2], r[f[1]]>> : f \in {g \in OptionalFields("KPIErrorUpdate") :
               IF g[1] = "retry_count" THEN r[g[1]] # None ELSE Truthy(r[g[1]])}}

\* C14: to_dict puts every additional field at the top level of the result,
\* and a key that is both a known key and an additional field holds the
\* known field's value.
C14_KnownKeyWins ==
    (record.t = "obj" /\ record.cls = "KPIErrorUpdate" /\ wire # None
        /\ Truthy(record.additional_fields))
    => /\ DOMAIN record.additional_fields.m \subseteq DOMAIN wire.m
       /\ \A kv \in KnownWritten(record) : wire.m[kv[1]] = kv[2]


Got(fn) == called = fn /\ extracted # Pending

NonNull(v) == v # None

\* the value under the first of keys that d holds with a value satisfying
\* Good, or default when there is none
FirstWhere(d, keys, Good(_), default) ==
    LET Hit(k) == k \in DOMAIN d.m /\ Good(d.m[k])
        hits == SelectSeq(keys, Hit)
    IN IF hits = <<>> THEN default ELSE d.m[hits[1]]

MessageFields == <<"message", "error", "description">>

\* C15 as stated: the first non-null of message, error, description.
C15_Original ==
    Got("get_error_message") =>
      extracted.val =
        (IF record.error.t = "dict"
           THEN FirstWhere(record.error, MessageFields, NonNull, Str(PyStr(record.error)))
           ELSE Str(PyStr(record.error)))

\* C15 (amended): get_error_message returns the first of message, error,
\* description that is truthy (neither null nor empty), the stringified
\* mapping when none is, and the stringified error when it is not a mapping;
\* {message: M, error: E} yields M for every truthy M.
C15_FirstTruthyMessage ==
    Got("get_error_message") =>
      /\ extracted.val =
           (IF record.error.t = "dict"
              THEN FirstWhere(record.error, MessageFields, Truthy, Str(PyStr(record.error)))
              ELSE Str(PyStr(record.error)))
      /\ (record.error.t = "dict" /\ Has(record.error, "message")
            /\ Truthy(record.error.m["message"]))
         => extracted.val = record.error.m["message"]

C15_Witness ==
    /\ Got("get_error_message")
    /\ record.error = Dict(("message" :> Str("")) @@ ("error" :> Str("Unauthorized")))
    /\ extracted.val = Str("Unauthorized")

\* C16 as stated: the first non-null of code and errorCode, else the
\* stringified status, else None; never an empty string.
C16_Original ==
    Got("get_error_code") =>
      /\ extracted.val # Str("")
      /\ extracted.val =
           (IF record.error.t # "dict" THEN None
            ELSE LET code == FirstWhere(record.error, <<"code", "errorCode">>, NonNull, None)
                     status == Get(record.error, "status", None)
                 IN IF code # None THEN Str(PyStr(code))
                    ELSE IF status # None THEN Str(PyStr(status))
                    ELSE None)

\* C16 (amended): get_error_code returns the stringified first truthy of
\* code and errorCode; when neither is truthy, the stringified status if
\* that is truthy; otherwise None. The result is never an empty string.
C16_FirstTruthyCode ==
    Got("get_error_code") =>
      /\ extracted.val # Str("")
      /\ extracted.val =
           (IF record.error.t # "dict" THEN None
            ELSE LET code == FirstWhere(record.error, <<"code", "errorCode">>, Truthy, None)
                     status == Get(record.error, "status", None)
                 IN IF code # None THEN Str(PyStr(code))
                    ELSE IF Truthy(status) THEN Str(PyStr(status))
                    ELSE None)

C16_Witness ==
    /\ Got("get_error_code")
    /\ record.error = Dict(("code" :> Num(0)) @@ ("errorCode" :> Str(""))
                           @@ ("status" :> Num(401)))
    /\ extracted.val = Str("401")

\* C17 as stated: the first non-null of name, type, errorType, else None.
C17_Original ==
    Got("get_error_type") =>
      extracted.val =
        (IF record.error.t = "dict"
           THEN FirstWhere(record.error, <<"name", "type", "errorType">>, NonNull, None)
           ELSE None)

\* C17 (amended): get_error_type returns the first truthy of name and type;
\* when neither is truthy it returns the errorType value as it is (None when
\* the key is absent); it returns None when error is not a mapping.
C17_FirstTruthyType ==
    Got("get_error_type") =>
      extracted.val =
        (IF record.error.t = "dict"
           THEN FirstWhere(record.error, <<"name", "type">>, Truthy,
                           Get(record.error, "errorType", None))
           ELSE None)

C17_Witness ==
    /\ Got("get_error_type")
    /\ record.error = Dict(("name" :> Str("")) @@ ("type" :> Str("network")))
    /\ extracted.val = Str("network")


----------------------------------------------------------------------------
(* Properties of construction from parsed JSON *)

\* parse_multi_kpi_response was called on an aggregate-typed mapping whose
\* data is a mapping
MultiParsedWithData ==
    /\ Did("parse_multi_kpi_response")
    /\ WireKpiType \in MultiLiterals
    /\ Has(wire, "data") /\ wire.m["data"].t = "dict"

\* every sub-field of the data record is the wire value, or 0.0 where the
\* wire mapping lacks the key
SubFieldsDefaulted ==
    /\ parsed.val.data.t = "obj"
    /\ \A k \in ExternalKeys(parsed.val) :
          SerializedAggregate(parsed.val).m[k] = Get(wire.m["data"], k, Num(0))

\* C18 as stated: whenever the wire data mapping is present, construction
\* does not fail and the data record holds each sub-field's wire value, 0.0
\* for a missing one.
C18_Original ==
    MultiParsedWithData =>
      /\ (Has(wire, "traceId") /\ Has(wire, "timestamp")) => parsed.st = "ok"
      /\ parsed.st = "ok" => SubFieldsDefaulted

\* C18 (amended): construction never fails on a missing sub-field; when the
\* wire data mapping is present and non-empty the data record holds each
\* sub-field's wire value and 0.0 for a missing one; an empty data mapping
\* yields a response without a data record.
C18_SubFieldDefaults ==
    MultiParsedWithData =>
      /\ (Has(wire, "traceId") /\ Has(wire, "timestamp")) => parsed.st = "ok"
      /\ parsed.st = "ok" =>
           IF wire.m["data"] = EmptyDict THEN parsed.val.data = None
           ELSE SubFieldsDefaulted

C18_Witness ==
    /\ MultiParsedWithData /\ parsed.st = "ok"
    /\ WireKpiType = Str("cbbi-multi")
    /\ wire.m["data"] = Dict(("cbbi-rhodl" :> Num(1)) @@ ("cmc-btc-dominance" :> Num(2)))
    /\ parsed.val.data = CBBIData(Num(0), Num(1), Num(0), Num(0))

\* one of the two constructors that read a chart block was called
ChartParsed == Did("parse_kpi_data_update") \/ Did("parse_individual_kpi_response")

RequiredPresent == \A i \in 1..Len(required_fields) : Has(wire, required_fields[i])

\* the outcome for a chart block that is looked at: failure unless it is a
\* mapping with url, else a ChartInfo with "unknown" for a missing type /
\* timeRange
ChartChecked ==
    LET chart == wire.m["chart"]
    IN IF chart.t # "dict" \/ ~Has(chart, "url")
         THEN parsed.st = "raised"
         ELSE parsed.st = "ok" =>
                parsed.val.chart = ChartInfo(chart.m["url"],
                                             Get(chart, "type", Str("unknown")),
                                             Get(chart, "timeRange", Str("unknown")))

\* the outcome for a chart block that is passed over: no failure on its
\* account and no ChartInfo
ChartSkipped ==
    /\ RequiredPresent => parsed.st = "ok"
    /\ parsed.st = "ok" => parsed.val.chart = None

\* C19 as stated: every chart that is present and non-null is looked at,
\* the empty mapping included.
C19_Original ==
    ChartParsed =>
      IF Has(wire, "chart") /\ wire.m["chart"] # None THEN ChartChecked ELSE ChartSkipped

\* C19 (amended): a chart that is present and truthy (non-null, non-empty)
\* must be a mapping containing url, else construction fails; type and
\* timeRange default to "unknown"; an absent, null or empty chart yields no
\* ChartInfo and no failure.
C19_ChartTruthy ==
    ChartParsed =>
      IF Has(wire, "chart") /\ Truthy(wire.m["chart"]) THEN ChartChecked ELSE ChartSkipped

C19_Witness ==
    /\ Did("parse_individual_kpi_response") /\ parsed.st = "ok"
    /\ Has(wire, "chart")
    /\ wire.m["chart"] = Dict("url" :> Str("https://example.com/chart.png"))
    /\ parsed.val.chart = ChartInfo(Str("https://example.com/chart.png"),
                                    Str("unknown"), Str("unknown"))

\* C20: every record parse_kpi_data_update returns has a non-empty trace_id,
\* a non-empty kpi_id and a mapping as data, and so satisfies validate().
C20_ValidOnSuccess ==
    (Did("parse_kpi_data_update") /\ parsed.st = "ok")
    => /\ Truthy(parsed.val.trace_id)
       /\ Truthy(parsed.val.kpi_id)
       /\ parsed.val.data.t = "dict"
       /\ KPIDataUpdate_validate(parsed.val)


----------------------------------------------------------------------------
(* Properties of the response parsers' failures *)

\* the keys the aggregate branches dereference
MultiMissingRequired == {f \in {"traceId", "timestamp"} : ~Has(wire, f)}

\* C21: the response parsers report a missing required key as a ValueError,
\* the error kind KPIDataUpdate.from_dict uses, and build no record; so does
\* parse_kpi_response for a mapping with kpiId that lacks another key.
C21_MissingFieldKind ==
    /\ (Did("parse_individual_kpi_response") /\ MissingRequired # {}
          /\ ParseChart(wire).st = "ok")
       => (parsed.st = "raised" /\ parsed.exc = "ValueError")
    /\ (Did("parse_multi_kpi_response") /\ WireKpiType \in MultiLiterals
          /\ MultiMissingRequired # {}
          /\ ~(HasRawData(wire) /\ wire.m["data"].t # "dict"))
       => (parsed.st = "raised" /\ parsed.exc = "ValueError")
    /\ (Did("parse_kpi_response") /\ WireKpiType \notin MultiLiterals
          /\ Has(wire, "kpiId") /\ MissingRequired # {}
          /\ ParseChart(wire).st = "ok")
       => (parsed.st = "raised" /\ parsed.exc = "ValueError")


----------------------------------------------------------------------------
(* Properties of the aggregate round trip *)

AggregateRoundTripped ==
    IsAggregate(record) /\ wire # None /\ Did("parse_multi_kpi_response")

\* C25: an aggregate response serialized with to_dict and parsed back with
\* parse_multi_kpi_response yields a response of the same variant with the
\* same trace_id.
C25_AggregateRoundTrip ==
    AggregateRoundTripped =>
      /\ parsed.st = "ok"
      /\ parsed.val.cls = record.cls
      /\ parsed.val.trace_id = record.trace_id

C25_Witness ==
    /\ AggregateRoundTripped
    /\ record.cls = "CBBIMultiKPIResponse"
    /\ record.data # None /\ record.kpi_ids = List(<<>>)
    /\ parsed.st = "ok" /\ parsed.val.cls = "CBBIMultiKPIResponse"
    /\ parsed.val.kpi_ids = None


----------------------------------------------------------------------------
(* Properties of ingestion: parsing composed with normalization *)

\* an aggregate mapping whose data is a mapping and whose kpiIds is a list
\* was parsed and fanned out
Ingested ==
    /\ wire # None /\ Did("parse_multi_kpi_response") /\ parsed.st = "ok"
    /\ updates # Pending
    /\ Has(wire, "data") /\ wire.m["data"].t = "dict"
    /\ Has(wire, "kpiIds") /\ wire.m["kpiIds"].t = "list"

EmittedIds == {updates.val.l[j].kpi_id : j \in 1..Len(updates.val.l)}

\* per listed id: a missing sub-field of the source is emitted as 0.0, and
\* the id is skipped exactly when its sub-field is an explicit null or the id
\* is not an external key of the source
ListedIdsHandled ==
    LET raw == wire.m["data"]
        ids == wire.m["kpiIds"].l
    IN \A i \in 1..Len(ids) :
          LET id == ids[i]
              foreign == id.s \notin ExternalKeys(parsed.val)
              null == Has(raw, id.s) /\ raw.m[id.s] = None
          IN /\ (~foreign /\ ~Has(raw, id.s)) =>
                   \E j \in 1..Len(updates.val.l) :
                       /\ updates.val.l[j].kpi_id = id
                       /\ updates.val.l[j].data = Dict("value" :> Num(0))
             /\ (id \notin EmittedIds) <=> (foreign \/ null)

\* C26 as stated: for every wire data mapping, the empty one included.
C26_Original == Ingested => (updates.st = "ok" /\ ListedIdsHandled)

\* C26 (amended): when the wire data mapping is non-empty, a listed id whose
\* sub-field key is missing is emitted with data {"value": 0.0}, and an id is
\* skipped only for an explicit null or a key of another source; when the
\* wire data mapping is empty no data record is built and nothing is emitted.
C26_MissingSubFieldEmitted ==
    Ingested =>
      /\ updates.st = "ok"
      /\ IF wire.m["data"] = EmptyDict THEN updates.val = List(<<>>)
         ELSE ListedIdsHandled

C26_Witness ==
    /\ Ingested
    /\ WireKpiType = Str("cbbi-multi")
    /\ wire.m["data"] = Dict("cbbi-mvrv" :> Num(2))
    /\ wire.m["kpiIds"] = List(<<Str("cbbi-rhodl"), Str("cbbi-mvrv")>>)
    /\ Len(updates.val.l) = 2
    /\ updates.val.l[1].kpi_id = Str("cbbi-rhodl")
    /\ updates.val.l[1].data = Dict("value" :> Num(0))


----------------------------------------------------------------------------
(* Properties of the normalizer's output order *)

\* a[i..] can be matched, in order, inside b[j..]
RECURSIVE IsSubsequenceFrom(_, _, _, _)
IsSubsequenceFrom(a, b, i, j) ==
    IF i > Len(a) THEN TRUE
    ELSE IF j > Len(b) THEN FALSE
    ELSE IF a[i] = b[j] THEN IsSubsequenceFrom(a, b, i + 1, j + 1)
    ELSE IsSubsequenceFrom(a, b, i, j + 1)

ListedIds(r) == IF r.kpi_ids = None THEN <<>> ELSE r.kpi_ids.l

EmittedIdSeq == [j \in 1..Len(updates.val.l) |-> updates.val.l[j].kpi_id]

\* C27: the kpi_ids of the records to_kpi_data_updates returns form a
\* subsequence of kpi_ids, no longer than it, a listed id being emitted as
\* often as it is listed or not at all, and every emitted id is one of the
\* source's four external keys.
C27_EmittedSubsequence ==
    Normalized =>
      /\ updates.st = "ok"
      /\ LET ids == ListedIds(record)
             out == EmittedIdSeq
         IN /\ IsSubsequenceFrom(out, ids, 1, 1)
            /\ Len(out) <= Len(ids)
            /\ \A j \in 1..Len(out) :
                  LET Same(x) == x = out[j]
                  IN /\ out[j].s \in ExternalKeys(record)
                     /\ Occurrences(out, Same) = Occurrences(ids, Same)

C27_Witness ==
    /\ Normalized /\ record.cls = "CBBIMultiKPIResponse"
    /\ record.kpi_ids = List(<<Str("cbbi-rhodl"), Str("cmc-btc-dominance"),
                               Str("cbbi-btc-price-usd"), Str("cbbi-rhodl")>>)
    /\ EmittedIdSeq = <<Str("cbbi-rhodl"), Str("cbbi-btc-price-usd"), Str("cbbi-rhodl")>>


----------------------------------------------------------------------------
(* Properties of the parsed error record *)

ErrorParseCalled == Did("parse_kpi_error_update") \/ Did("parse_error_response")

\* the mapping d without key k
Without(d, k) == Dict([x \in DOMAIN d.m \ {k} |-> d.m[x]])

\* C29: every error record the error parsers return has a non-empty trace_id
\* and a non-empty error and satisfies validate(); an empty-string traceId
\* and an empty error ({} or "") are rejected with the outcome the same
\* mapping without that key gets.
C29_ErrorValidOnSuccess ==
    ErrorParseCalled =>
      /\ parsed.st = "ok" =>
           /\ Truthy(parsed.val.trace_id) /\ parsed.val.trace_id # Str("")
           /\ Truthy(parsed.val.error)
           /\ parsed.val.error \notin {EmptyDict, Str("")}
           /\ KPIErrorUpdate_validate(parsed.val)
      /\ (Has(wire, "traceId") /\ wire.m["traceId"] = Str("")) =>
           /\ parsed.st = "raised"
           /\ parsed = KPIErrorUpdate_from_dict(Without(wire, "traceId"))
      /\ (Has(wire, "error") /\ wire.m["error"] \in {EmptyDict, Str("")}) =>
           /\ parsed.st = "raised"
           /\ parsed = KPIErrorUpdate_from_dict(Without(wire, "error"))

C29_Witness ==
    /\ Did("parse_error_response")
    /\ Has(wire, "traceId") /\ wire.m["traceId"] = Str("trace_minimal")
    /\ Has(wire, "error") /\ wire.m["error"] = EmptyDict
    /\ parsed = ErrorRequired


----------------------------------------------------------------------------
(* Properties of retry_count in the error round trip *)

\* the optional fields of the error record other than retry_count
FalsyOmittedFields ==
    {f \in OptionalFields("KPIErrorUpdate") : f[1] # "retry_count"}
      \cup {<<"additional_fields", "additional_fields">>}

\* an empty value of another optional field is left out by to_dict and comes
\* back absent
EmptyValuesDropped ==
    \A f \in FalsyOmittedFields :
        (record[f[1]] # None /\ ~Truthy(record[f[1]])) =>
            /\ f[2] \notin DOMAIN wire.m
            /\ parsed.st = "ok" => parsed.val[f[1]] = None

\* C30 as stated, for every record: a retry_count that is set, 0 included, is written by to_dict as
\* retryCount with its value and comes back unchanged from from_dict, an
\* absent one stays absent, while an empty value of any other optional field
\* is omitted and comes back absent.
C30_RetryCountZero ==
    (ErrorRoundTripped /\ KPIErrorUpdate_validate(record)) =>
      /\ parsed.st = "ok"
      /\ IF record.retry_count = None
           THEN "retryCount" \notin DOMAIN wire.m /\ parsed.val.retry_count = None
           ELSE /\ "retryCount" \in DOMAIN wire.m
                /\ wire.m["retryCount"] = record.retry_count
                /\ parsed.val.retry_count = record.retry_count
      /\ EmptyValuesDropped

\* C30 (amended): the same for every record whose additional_fields names
\* no known key (retryCount in particular).
C30_RetryCountZero_NoCollision ==
    (~CollidesWithKnown(record.additional_fields)) => C30_RetryCountZero

C30_Witness ==
    /\ ErrorRoundTripped /\ KPIErrorUpdate_validate(record)
    /\ record.retry_count = Num(0)
    /\ record.kpi_ids = List(<<>>) /\ record.execution_id = Str("")
    /\ record.additional_fields = EmptyDict
    /\ wire.m["retryCount"] = Num(0)
    /\ parsed.st = "ok" /\ parsed.val.retry_count = Num(0)
    /\ parsed.val.kpi_ids = None /\ parsed.val.execution_id = None


----------------------------------------------------------------------------
(* Properties of the validator script *)

Running == run.pc # "not run"

Endpoints == {"cbbi", "cmc"}

\* the call did not produce a 200 response with a JSON body
CallFailed(o) == o.kind # "200"

\* the 200 body cannot be parsed into an aggregate response
BodyUnparsable(o) ==
    /\ o.kind = "200"
    /\ \/ o.body.t # "dict"
       \/ parse_multi_kpi_response(o.body).st = "raised"

\* C22: the validator run never raises: a transport failure, a timeout, a
\* non-200 status or a 200 body that cannot be parsed is recorded as a False
\* entry of that endpoint, and run_validation returns entries for both
\* endpoints before the exit status is decided.
C22_NeverRaises ==
    Running =>
      /\ run.pc # "crashed"
      /\ \A e \in DOMAIN run.http :
            /\ e \in DOMAIN run.results
            /\ (CallFailed(run.http[e]) \/ BodyUnparsable(run.http[e]))
                  => run.results[e] = FALSE
      /\ run.pc \in {"returned", "exited"} => DOMAIN run.results = Endpoints
      /\ run.exit # None => run.pc = "exited"

C22_Witness ==
    /\ Running /\ run.pc = "returned"
    /\ run.http["cbbi"] = HttpRaises("Timeout")
    /\ run.http["cmc"] = HttpOk(Str("Workflow was started"))
    /\ run.results = ("cbbi" :> FALSE) @@ ("cmc" :> FALSE)

\* the cmc result of an outcome when the CMC endpoint is validated alone
CmcAlone(o) == o.kind = "200" /\ Truthy(o.body) /\ validate_cmc_response(o.body)

C24_ExitNonZeroOnFailure ==
    (Running /\ run.exit # None) =>
      /\ Len(run.calls) = 2 /\ DOMAIN run.results = Endpoints
      /\ (\E e \in Endpoints : ~run.results[e]) => run.exit # Num(0)

C24_Witness ==
    /\ Running /\ run.pc = "exited"
    /\ run.results = ("cbbi" :> TRUE) @@ ("cmc" :> FALSE)
    /\ run.http["cmc"] = HttpStatus(500)
    /\ run.exit = Num(1)

ExpectedVariant(e) == IF e = "cbbi" THEN "CBBIMultiKPIResponse" ELSE "CMCMultiKPIResponse"

\* to_kpi_data_updates of the parsed response r
NormalizedUpdates(r) ==
    IF r.cls = "CBBIMultiKPIResponse" THEN CBBI_to_kpi_data_updates(r)
    ELSE CMC_to_kpi_data_updates(r)

\* what a passing endpoint must have answered
PassConditions(e, o) ==
    /\ o.kind = "200"
    /\ Truthy(o.body) /\ o.body.t = "dict"
    /\ LET r == parse_multi_kpi_response(o.body)
       IN /\ r.st = "ok"
          /\ r.val.cls = ExpectedVariant(e)
          /\ r.val.trace_id \notin {None, Str("")}
          /\ r.val.timestamp \notin {None, Str("")}
          /\ NormalizedUpdates(r.val).st = "ok"
          /\ Len(NormalizedUpdates(r.val).val.l) >= 1

\* C28: an endpoint's result is True only for a 200 response with a non-empty
\* body that parses to the endpoint's own aggregate variant with non-empty
\* trace_id and timestamp and normalizes to at least one update; a response
\* without data or kpiIds, or of the other source's kpiType, is a failure;
\* and the exit status is 0 only when both endpoints pass.
C28_PassOnlyIf ==
    Running =>
      /\ \A e \in DOMAIN run.results :
            LET o == run.http[e]
            IN /\ run.results[e] => PassConditions(e, o)
               /\ (o.kind = "200" /\ o.body.t = "dict"
                     /\ (~Has(o.body, "data") \/ ~Has(o.body, "kpiIds")
                           \/ Get(o.body, "kpiType", None)
                                = (IF e = "cbbi" THEN Str("cmc-multi")
                                   ELSE Str("cbbi-multi"))))
                  => ~run.results[e]
      /\ run.exit = Num(0) =>
            (DOMAIN run.results = Endpoints /\ \A e \in Endpoints : run.results[e])

C28_Witness ==
    /\ Running /\ run.pc = "exited" /\ run.exit = Num(0)
    /\ run.results = ("cbbi" :> TRUE) @@ ("cmc" :> TRUE)
    /\ PassConditions("cbbi", run.http["cbbi"])
    /\ PassConditions("cmc", run.http["cmc"])

====
